---- MODULE Spec2Model ----
(***************************************************************************)
(* Model of the seizure analytics of the medical record dashboard          *)
(* (utils/data_processor.py).  A patient record is loaded, then            *)
(* analyze_seizure_frequency is applied to it; the pandas operations the   *)
(* function uses are operators that compute what pandas computes.          *)
(*                                                                         *)
(* Representation                                                          *)
(*   - a date string "YYYY-MM-DD" is the sequence of its ten characters;   *)
(*   - a Timestamp is the number of days since 1970-01-01;                 *)
(*   - a monthly Period is (year - 1970) * 12 + month - 1;                 *)
(*   - a duration_seconds entry is tagged: an integer, a key that is       *)
(*     absent from the event, or a non-numeric string;                     *)
(*   - a result or reference_range string is the sequence of its           *)
(*     characters, a parsed float the pair of its digits and the number    *)
(*     of digits after the point;                                          *)
(*   - the severity score and the flagged percentage are held in tenths;   *)
(*   - average_duration_seconds is held in tenths (1050 for 105.0);        *)
(*   - a dict is a function, so two dicts with the same items are equal    *)
(*     whatever their insertion order, as in Python.                       *)
(***************************************************************************)
EXTENDS Integers, Sequences, FiniteSets, TLC

VARIABLES data, seizure_analysis, seizure_heatmap, seizure_frame,
          neural_data, severity_gauge,
          diagnostics_data, diagnostic_analysis, diagnostics_view,
          health_values, health_trend, health_average,
          connection_pool, used, position, use, finished,
          cache, handled

seizure_vars == <<data, seizure_analysis, seizure_heatmap, seizure_frame>>
gauge_vars == <<neural_data, severity_gauge>>
diagnostics_vars == <<diagnostics_data, diagnostic_analysis, diagnostics_view>>

health_vars == <<health_values, health_trend, health_average>>
pool_vars == <<connection_pool, used, position, use, finished>>
app_vars == <<cache, handled>>
service_vars == <<health_vars, pool_vars, app_vars>>

vars == <<seizure_vars, gauge_vars, diagnostics_vars, service_vars>>

\* Longest seizure history the model loads.
MaxEvents == 4

-----------------------------------------------------------------------------
(* Input records *)

IntDuration(n) == [tag |-> "int", val |-> n]
MissingDuration == [tag |-> "missing", val |-> 0]
NonNumericDuration == [tag |-> "str", val |-> 0]

SeizureEvent(date, type, duration, triggers) ==
    [date |-> date, type |-> type, duration_seconds |-> duration, triggers |-> triggers]

Date_2023_01_15 == <<"2", "0", "2", "3", "-", "0", "1", "-", "1", "5">>
Date_2023_01_31 == <<"2", "0", "2", "3", "-", "0", "1", "-", "3", "1">>
Date_2023_03_02 == <<"2", "0", "2", "3", "-", "0", "3", "-", "0", "2">>
Date_2023_06_10 == <<"2", "0", "2", "3", "-", "0", "6", "-", "1", "0">>
Date_2024_01_31 == <<"2", "0", "2", "4", "-", "0", "1", "-", "3", "1">>
Date_2024_02_29 == <<"2", "0", "2", "4", "-", "0", "2", "-", "2", "9">>

\* The events a history is drawn from: the two events of the documented
\* scenario, a second event on the same day, an interior month, the same
\* calendar month one year later, a leap day, and the two malformed durations.
SeizureEvents ==
    { SeizureEvent(Date_2023_01_15, "Focal", IntDuration(120), <<"Stress">>),
      SeizureEvent(Date_2023_06_10, "Focal", IntDuration(90), <<"Flashing lights">>),
      SeizureEvent(Date_2023_06_10, "Generalized", IntDuration(45), <<>>),
      SeizureEvent(Date_2023_03_02, "Generalized", IntDuration(30),
                   <<"Stress", "Sleep deprivation">>),
      SeizureEvent(Date_2024_01_31, "Focal", IntDuration(45), <<"Stress">>),
      SeizureEvent(Date_2024_02_29, "Focal", IntDuration(61), <<"Sleep deprivation">>),
      SeizureEvent(Date_2023_01_31, "Focal", MissingDuration, <<>>),
      SeizureEvent(Date_2023_03_02, "Generalized", NonNumericDuration,
                   <<"Flashing lights">>) }

Histories == UNION {[1..n -> SeizureEvents] : n \in 0..MaxEvents}

AllSections == {"medical_history", "neurological_history", "seizure_history"}

\* The nested sections are a chain: a section is present only inside its parent.
PartialSections == {{}, {"medical_history"}, {"medical_history", "neurological_history"}}

PatientRecords ==
    {[sections |-> s, seizure_history |-> <<>>] : s \in PartialSections}
    \cup {[sections |-> AllSections, seizure_history |-> h] : h \in Histories}

-----------------------------------------------------------------------------
(* data.get('medical_history', {}).get('neurological_history', {})
       .get('seizure_history', []) *)

GetSeizureHistory(d) ==
    IF AllSections \subseteq d.sections THEN d.seizure_history ELSE <<>>

-----------------------------------------------------------------------------
(* Dates: pd.to_datetime, Series.dt.to_period('M'), Timestamp.strftime *)

Digits == <<"0", "1", "2", "3", "4", "5", "6", "7", "8", "9">>

DigitVal(c) == (CHOOSE i \in 1..Len(Digits) : Digits[i] = c) - 1

\* Days from 1970-01-01 to the proleptic Gregorian date y-m-d.
DaysFromCivil(y, m, d) ==
    LET yy == IF m <= 2 THEN y - 1 ELSE y
        era == yy \div 400
        yoe == yy - era * 400
        mp == IF m > 2 THEN m - 3 ELSE m + 9
        doy == (153 * mp + 2) \div 5 + d - 1
        doe == yoe * 365 + yoe \div 4 - yoe \div 100 + doy
    IN  era * 146097 + doe - 719468

\* The calendar date of a day number.
CivilFromDays(z) ==
    LET zz == z + 719468
        era == zz \div 146097
        doe == zz - era * 146097
        yoe == (doe - doe \div 1460 + doe \div 36524 - doe \div 146096) \div 365
        doy == doe - (365 * yoe + yoe \div 4 - yoe \div 100)
        mp == (5 * doy + 2) \div 153
        d == doy - (153 * mp + 2) \div 5 + 1
        m == IF mp < 10 THEN mp + 3 ELSE mp - 9
        y == yoe + era * 400
    IN  [year |-> IF m <= 2 THEN y + 1 ELSE y, month |-> m, day |-> d]

\* pd.to_datetime of a "YYYY-MM-DD" string.
to_datetime(s) ==
    DaysFromCivil(1000 * DigitVal(s[1]) + 100 * DigitVal(s[2])
                      + 10 * DigitVal(s[3]) + DigitVal(s[4]),
                  10 * DigitVal(s[6]) + DigitVal(s[7]),
                  10 * DigitVal(s[9]) + DigitVal(s[10]))

\* A plausible slip: the period keeps the calendar month only (dt.month).
to_period_month_only(ts) == CivilFromDays(ts).month - 1

\* Series.dt.to_period('M'): the ordinal of the (year, month) of a Timestamp.
to_period(ts) ==
    LET c == CivilFromDays(ts) IN (c.year - 1970) * 12 + c.month - 1

TwoDigits(n) == <<Digits[((n \div 10) % 10) + 1], Digits[(n % 10) + 1]>>

\* A plausible slip: the format '%Y-%d-%m'.
strftime_day_first(ts) ==
    LET c == CivilFromDays(ts)
    IN  TwoDigits(c.year \div 100) \o TwoDigits(c.year % 100) \o <<"-">>
            \o TwoDigits(c.day) \o <<"-">> \o TwoDigits(c.month)

\* Timestamp.strftime('%Y-%m-%d').
strftime(ts) ==
    LET c == CivilFromDays(ts)
    IN  TwoDigits(c.year \div 100) \o TwoDigits(c.year % 100) \o <<"-">>
            \o TwoDigits(c.month) \o <<"-">> \o TwoDigits(c.day)

-----------------------------------------------------------------------------
(* Malformed content: keys a dict lacks, values of the wrong kind *)

\* An event or a test may carry the set of the keys it lacks; the fields of
\* these keys are then placeholders.  A dict that lacks no key carries no set.
Lacks(record, key) == "lacks" \in DOMAIN record /\ key \in record.lacks

\* df[key] exists when at least one dict of the list has the key.
HasKey(records, key) == \E i \in DOMAIN records : ~Lacks(records[i], key)

\* A date string pd.to_datetime parses; of the strings of the model these
\* are the "YYYY-MM-DD" ones.
IsDateString(s) ==
    /\ Len(s) = 10
    /\ s[5] = "-" /\ s[8] = "-"
    /\ \A i \in {1, 2, 3, 4, 6, 7, 9, 10} : \E k \in DOMAIN Digits : Digits[k] = s[i]

\* pd.to_datetime(df['date']) raises on a string that is no date.
DatesParse(records) ==
    \A i \in DOMAIN records : Lacks(records[i], "date") \/ IsDateString(records[i].date)

\* NaT, the Timestamp of a missing date: it sorts after every date.
NaT == 10000000

\* NaN in a column of strings.
NaNString == "NaN"

\* An exception that leaves the function: nothing is returned to the caller.
Raised(exception) == [raised |-> exception]

-----------------------------------------------------------------------------
(* Wrong structure: a value that is not a list of dicts *)

\* A record may carry the kind of the value it holds in place of the list:
\*   "None", "zero", "empty_string", "empty_dict"  the falsy values;
\*   "number", "string"       a non-zero number, a non-empty string;
\*   "list_of_numbers"        a list whose items are no dicts;
\*   "single_record"          one event or test dict in place of the list,
\*                            held as the only item of the list field;
\*   "not_a_dict"             data or one of its sections has no .get.
\* A record that holds a list of dicts carries no kind.
StructureOf(d) == IF "structure" \in DOMAIN d THEN d.structure ELSE "list"

FalsyStructures == {"None", "zero", "empty_string", "empty_dict"}

\* The characters of a trigger name: what iterating over the string gives.
Characters(trigger) ==
    CASE trigger = "Stress" -> <<"S", "t", "r", "e", "s", "s">>
      [] trigger = "Sleep deprivation" -> <<"S", "l", "e", "e", "p", " ", "d", "e", "p", "r", "i", "v", "a", "t", "i", "o", "n">>
      [] trigger = "Flashing lights" -> <<"F", "l", "a", "s", "h", "i", "n", "g", " ", "l", "i", "g", "h", "t", "s">>

-----------------------------------------------------------------------------
(* The frame: pd.DataFrame(seizure_history) with df['date'] converted *)

Range(f) == {f[i] : i \in DOMAIN f}

Row(event) ==
    [date |-> IF Lacks(event, "date") THEN NaT ELSE to_datetime(event.date),
     type |-> IF Lacks(event, "type") THEN NaNString ELSE event.type,
     duration_seconds |-> event.duration_seconds,
     triggers |-> event.triggers,
     no_triggers |-> Lacks(event, "triggers")]

\* A plausible slip: one row per distinct date (the first event of a date wins).
DataFrameDropDuplicates(seizure_history) ==
    LET keep == {i \in DOMAIN seizure_history :
                     \A j \in 1..(i - 1) : seizure_history[j].date # seizure_history[i].date}
        F[i \in 0..Len(seizure_history)] ==
            IF i = 0 THEN <<>>
            ELSE IF i \in keep THEN Append(F[i - 1], Row(seizure_history[i]))
            ELSE F[i - 1]
    IN  F[Len(seizure_history)]

\* A plausible slip: events without a trigger are left out of the frame.
DataFrameDropUntriggered(seizure_history) ==
    LET F[i \in 0..Len(seizure_history)] ==
            IF i = 0 THEN <<>>
            ELSE IF seizure_history[i].triggers # <<>>
                 THEN Append(F[i - 1], Row(seizure_history[i]))
            ELSE F[i - 1]
    IN  F[Len(seizure_history)]

\* One row per event, in input order.
DataFrame(seizure_history) ==
    [i \in DOMAIN seizure_history |-> Row(seizure_history[i])]

\* pd.DataFrame(event) of one event dict: the scalars are broadcast over the
\* items of the triggers list, so there is one row per trigger, whose
\* triggers entry is the trigger string itself.
BroadcastFrame(event) ==
    [i \in DOMAIN event.triggers |->
        [date |-> to_datetime(event.date), type |-> event.type,
         duration_seconds |-> event.duration_seconds,
         triggers |-> Characters(event.triggers[i]),
         no_triggers |-> FALSE]]

\* pd.DataFrame(seizure_history) for the value the record holds.
Frame(d, seizure_history) ==
    IF StructureOf(d) = "single_record" THEN BroadcastFrame(seizure_history[1])
    ELSE DataFrame(seizure_history)

\* A column exists when at least one event has the key.
HasColumn(df, column) ==
    IF column = "duration_seconds"
    THEN \E i \in DOMAIN df : df[i].duration_seconds.tag # "missing"
    ELSE Len(df) > 0

\* The column is of dtype object as soon as one value is a string.
IsObjectColumn(df) == \E i \in DOMAIN df : df[i].duration_seconds.tag = "str"

RECURSIVE InsertByDate(_, _)
InsertByDate(row, sorted) ==
    IF sorted = <<>> THEN <<row>>
    ELSE IF Head(sorted).date <= row.date
         THEN <<Head(sorted)>> \o InsertByDate(row, Tail(sorted))
    ELSE <<row>> \o sorted

\* A plausible slip: sorting through a mapping keyed by date, so that of the
\* rows of one date only the last one survives.
RECURSIVE sort_values_keyed(_)
sort_values_keyed(df) ==
    IF df = <<>> THEN <<>>
    ELSE LET last == df[Len(df)]
             rest == SelectSeq(SubSeq(df, 1, Len(df) - 1), LAMBDA r : r.date # last.date)
         IN  InsertByDate(last, sort_values_keyed(rest))

\* df.sort_values('date'): ascending; rows of equal date keep their order.
RECURSIVE sort_values(_)
sort_values(df) ==
    IF df = <<>> THEN <<>>
    ELSE InsertByDate(df[Len(df)], sort_values(SubSeq(df, 1, Len(df) - 1)))

-----------------------------------------------------------------------------
(* Aggregations of analyze_seizure_frequency *)

RECURSIVE SortedSeq(_)
SortedSeq(S) ==
    IF S = {} THEN <<>>
    ELSE LET least == CHOOSE x \in S : \A y \in S : x <= y
         IN  <<least>> \o SortedSeq(S \ {least})

\* df.groupby('month').size().reset_index(): one row per populated month,
\* in ascending month order, with the number of events of that month.
monthly_counts(df) ==
    LET dated == SelectSeq(df, LAMBDA row : row.date # NaT)
        month == [i \in DOMAIN dated |-> to_period(dated[i].date)]
        keys == SortedSeq(Range(month))
    IN  [k \in DOMAIN keys |->
            [month |-> keys[k],
             seizure_count |-> Cardinality({i \in DOMAIN dated : month[i] = keys[k]})]]

\* A plausible slip: only the first trigger of each event is collected.
RECURSIVE all_triggers_first_only(_)
all_triggers_first_only(df) ==
    IF df = <<>> THEN <<>>
    ELSE (IF Head(df).triggers = <<>> THEN <<>> ELSE <<Head(Head(df).triggers)>>)
             \o all_triggers_first_only(Tail(df))

\* for triggers in df['triggers']: all_triggers.extend(triggers)
RECURSIVE all_triggers(_)
all_triggers(df) ==
    IF df = <<>> THEN <<>>
    ELSE Head(df).triggers \o all_triggers(Tail(df))

\* pd.Series(values).value_counts().to_dict(): NaN is not counted.
value_counts(values) ==
    [v \in Range(values) \ {NaNString} |->
        Cardinality({i \in DOMAIN values : values[i] = v})]

\* Series.mean() of a numeric column: NaN entries are skipped.  The mean is
\* kept as the exact fraction sum / count; count = 0 stands for NaN.
RECURSIVE mean(_)
mean(df) ==
    IF df = <<>> THEN [sum |-> 0, count |-> 0]
    ELSE LET rest == mean(Tail(df))
         IN  IF Head(df).duration_seconds.tag = "int"
             THEN [sum |-> rest.sum + Head(df).duration_seconds.val,
                   count |-> rest.count + 1]
             ELSE rest

NaN == [nan |-> TRUE, tenths |-> 0]

\* A plausible slip: the mean is cut to one decimal instead of rounded.
round_truncating(avg) ==
    IF avg.count = 0 THEN NaN
    ELSE [nan |-> FALSE, tenths |-> (10 * avg.sum) \div avg.count]

\* round(avg_duration, 1) of a numpy float: the value times ten is rounded to
\* the nearest integer, a tie going to the even one; NaN stays NaN.
round(avg) ==
    IF avg.count = 0 THEN NaN
    ELSE LET q == (10 * avg.sum) \div avg.count
             r == (10 * avg.sum) % avg.count
         IN  [nan |-> FALSE,
              tenths |-> IF 2 * r < avg.count THEN q
                         ELSE IF 2 * r > avg.count THEN q + 1
                         ELSE IF q % 2 = 0 THEN q ELSE q + 1]

\* A plausible slip: the last month is compared with the month before it.
TrendLastTwo(counts) ==
    IF Len(counts) > 1
    THEN LET first_count == counts[Len(counts) - 1].seizure_count
             last_count == counts[Len(counts)].seizure_count
         IN  IF last_count < first_count THEN "Improving"
             ELSE IF last_count > first_count THEN "Worsening"
             ELSE "Stable"
    ELSE "Insufficient data for trend analysis"

\* The two-point comparison of the first and the last populated month.
Trend(counts) ==
    IF Len(counts) > 1
    THEN LET first_count == counts[1].seizure_count
             last_count == counts[Len(counts)].seizure_count
         IN  IF last_count < first_count THEN "Improving"
             ELSE IF last_count > first_count THEN "Worsening"
             ELSE "Stable"
    ELSE "Insufficient data for trend analysis"

\* The dates of a column, NaT left out.
Dates(df) == {df[i].date : i \in DOMAIN df} \ {NaT}

\* df['date'].min() and df['date'].max(): NaT is skipped, and is the result
\* when no date is left.
MinDate(df) ==
    IF Dates(df) = {} THEN NaT
    ELSE CHOOSE t \in Dates(df) : \A u \in Dates(df) : t <= u
MaxDate(df) ==
    IF Dates(df) = {} THEN NaT
    ELSE CHOOSE t \in Dates(df) : \A u \in Dates(df) : t >= u

\* A plausible slip: only None is taken for "no history" (is None).
IsNone(seizure_history) == FALSE

\* not seizure_history: the empty list is falsy.
IsFalsy(seizure_history) == Len(seizure_history) = 0

NoData == [message |-> "No seizure history available"]

\* The result of the except branch; the exception's class stands for its text.
Failure(exception) == [error |-> exception]

\* Every exception is caught by the except branch.  A value without .get
\* raises AttributeError; a falsy value of any kind takes the early return;
\* pd.DataFrame raises ValueError on a number or a string, and a list of
\* numbers has no date column; of one event whose triggers list is empty the
\* frame has no row, and the strftime of its NaT minimum raises ValueError.
analyze_seizure_frequency(d) ==
    LET seizure_history == GetSeizureHistory(d)
    IN  IF StructureOf(d) = "not_a_dict" THEN Failure("AttributeError")
        ELSE IF StructureOf(d) \in FalsyStructures THEN NoData
        ELSE IF StructureOf(d) \in {"number", "string"} THEN Failure("ValueError")
        ELSE IF StructureOf(d) = "list_of_numbers" THEN Failure("KeyError")
        ELSE IF IsFalsy(seizure_history) THEN NoData
        ELSE IF ~HasKey(seizure_history, "date") THEN Failure("KeyError")
        ELSE IF ~DatesParse(seizure_history) THEN Failure("ValueError")
        ELSE LET df == sort_values(Frame(d, seizure_history))
             IN  IF ~HasColumn(df, "date")
                 THEN Failure(IF StructureOf(d) = "single_record"
                              THEN "ValueError" ELSE "KeyError")
                 ELSE IF ~HasKey(seizure_history, "triggers") THEN Failure("KeyError")
                 ELSE IF \E i \in DOMAIN df : df[i].no_triggers THEN Failure("TypeError")
                 ELSE IF ~HasKey(seizure_history, "type") THEN Failure("KeyError")
                 ELSE IF ~HasColumn(df, "duration_seconds") THEN Failure("KeyError")
                 ELSE IF IsObjectColumn(df) THEN Failure("TypeError")
                 ELSE [total_seizures |-> Len(df),
                       seizure_types |-> value_counts([i \in DOMAIN df |-> df[i].type]),
                       average_duration_seconds |-> round(mean(df)),
                       common_triggers |-> value_counts(all_triggers(df)),
                       trend |-> Trend(monthly_counts(df)),
                       first_recorded |-> strftime(MinDate(df)),
                       last_recorded |-> strftime(MaxDate(df))]

-----------------------------------------------------------------------------
(* The frame of analyze_seizure_frequency after line 121: df sorted by date,
   with its days_since_last column *)

\* A gap in days, or the NaN of a row that has no dated predecessor.
Gap(days) == [null |-> FALSE, days |-> days]
NullGap == [null |-> TRUE, days |-> 0]

\* A plausible slip: the gap is taken to the first event.
days_since_first(df) ==
    [i \in DOMAIN df |->
        IF i = 1 \/ df[i].date = NaT \/ df[1].date = NaT THEN NullGap
        ELSE Gap(df[i].date - df[1].date)]

\* df['date'].diff().dt.days: the whole days from the row before.
days_since_last(df) ==
    [i \in DOMAIN df |->
        IF i = 1 \/ df[i].date = NaT \/ df[i - 1].date = NaT THEN NullGap
        ELSE Gap(df[i].date - df[i - 1].date)]

\* No frame: the function returned or failed before line 121.
NoFrame == [built |-> FALSE, rows |-> <<>>]

\* The rows of df with the columns date (written as by strftime; the empty
\* string for NaT), type, triggers and days_since_last.
FrameAtLine121(d) ==
    LET seizure_history == GetSeizureHistory(d)
    IN  IF \/ StructureOf(d) \notin {"list", "single_record"}
           \/ IsFalsy(seizure_history)
           \/ ~HasKey(seizure_history, "date")
           \/ ~DatesParse(seizure_history)
        THEN NoFrame
        ELSE LET df == sort_values(Frame(d, seizure_history))
                 gaps == days_since_last(df)
             IN  [built |-> TRUE,
                  rows |-> [i \in DOMAIN df |->
                               [date |-> IF df[i].date = NaT THEN <<>>
                                         ELSE strftime(df[i].date),
                                type |-> df[i].type,
                                triggers |-> df[i].triggers,
                                days_since_last |-> gaps[i]]]]

-----------------------------------------------------------------------------
(* The dashboard: a record is loaded, then the analysis is called on it *)

\* seizure_analysis before the first call.
NotCalled == [pending |-> TRUE]

\* The parts of the record a specification does not look at are absent.
NoSeizureData == [sections |-> {}, seizure_history |-> <<>>]
NoNeuralData ==
    [present |-> {}, connectivity_strength |-> 0, network_stability |-> "",
     current_medication_efficacy |-> 0]
NoDiagnosticsData == [sections |-> {}, diagnostic_tests |-> <<>>]

\* Most threads that use the connection pool at one time.
MaxThreads == 2

Threads == 1..MaxThreads

\* The module-level name connection_pool of utils/db_pool.py holds a
\* ThreadedConnectionPool, or None when the pool could not be created or
\* has been closed.
ThreadedConnectionPool == "ThreadedConnectionPool"
NoPool == "None"

\* A thread that is in no with-block.
NoUse == [manager |-> "", commit |-> FALSE, caller |-> "", later |-> FALSE]

\* The in-memory cache of app.py as load_patient_data and load_medications
\* leave it at startup.
StartupCache == [patient_data |-> "startup", medications |-> "startup"]

\* No with-statement has ended yet.
NoneFinished ==
    [use |-> NoUse, calls |-> <<>>, outcome |-> [pending |-> TRUE],
     response |-> [pending |-> TRUE]]

HealthIdle ==
    /\ health_values = <<>>
    /\ health_trend = NotCalled
    /\ health_average = NotCalled
PoolIdle ==
    /\ connection_pool = NoPool
    /\ used = {}
    /\ position = [t \in Threads |-> "idle"]
    /\ use = [t \in Threads |-> NoUse]
    /\ finished = NoneFinished
AppIdle ==
    /\ cache = StartupCache
    /\ handled = 0
ServicesIdle == HealthIdle /\ PoolIdle /\ AppIdle

SeizureIdle ==
    /\ data = NoSeizureData
    /\ seizure_analysis = NotCalled
    /\ seizure_heatmap = NotCalled
    /\ seizure_frame = NoFrame
GaugeIdle == neural_data = NoNeuralData /\ severity_gauge = NotCalled
DiagnosticsIdle ==
    /\ diagnostics_data = NoDiagnosticsData
    /\ diagnostic_analysis = NotCalled
    /\ diagnostics_view = NotCalled

Init ==
    /\ ServicesIdle
    /\ data \in PatientRecords
    /\ seizure_analysis = NotCalled
    /\ seizure_heatmap = NotCalled
    /\ seizure_frame = NoFrame
    /\ GaugeIdle
    /\ DiagnosticsIdle

\* A plausible slip: the list of events itself is sorted by date
\* (seizure_history.sort(key=...)) before the frame is built.
HistorySortedInPlace(seizure_history) ==
    IF /\ DatesParse(seizure_history)
       /\ \A i \in DOMAIN seizure_history : ~Lacks(seizure_history[i], "date")
    THEN LET order == sort_values([i \in DOMAIN seizure_history |->
                                      [date |-> to_datetime(seizure_history[i].date),
                                       event |-> seizure_history[i]]])
         IN  [i \in DOMAIN order |-> order[i].event]
    ELSE seizure_history

\* The list the caller holds after a call: pd.DataFrame(seizure_history)
\* copies the events into a new frame; the conversion of the dates, the sort
\* and the added columns are of the frame, and the triggers are read into a
\* new list or set.  No module-level name is assigned.
HistoryAfterCall(seizure_history) == seizure_history

AnalyzeSeizureFrequency ==
    /\ seizure_analysis' = analyze_seizure_frequency(data)
    /\ seizure_frame' = FrameAtLine121(data)
    /\ data' = [data EXCEPT !.seizure_history = HistoryAfterCall(@)]
    /\ UNCHANGED <<seizure_heatmap, gauge_vars, diagnostics_vars, service_vars>>

Next == AnalyzeSeizureFrequency

Spec == Init /\ [][Next]_vars

-----------------------------------------------------------------------------
(* What the claims speak of, read off the input record itself *)

history == data.seizure_history

Called == seizure_analysis # NotCalled

\* A full analysis result, as opposed to a no-data or a failure result.
IsAnalysis(r) == "total_seizures" \in DOMAIN r

AllDurationsInteger(h) == \A i \in DOMAIN h : h[i].duration_seconds.tag = "int"

NoStringDuration(h) == \A i \in DOMAIN h : h[i].duration_seconds.tag # "str"

Abs(x) == IF x < 0 THEN -x ELSE x

RECURSIVE SumSeq(_)
SumSeq(s) == IF s = <<>> THEN 0 ELSE Head(s) + SumSeq(Tail(s))

RECURSIVE SumOfCounts(_)
SumOfCounts(f) ==
    IF DOMAIN f = {} THEN 0
    ELSE LET k == CHOOSE x \in DOMAIN f : TRUE
         IN  f[k] + SumOfCounts([x \in DOMAIN f \ {k} |-> f[x]])

\* The order of two texts of equal length made of the same separators and of
\* digits, such as two "YYYY-MM-DD" dates or two "YYYY-MM" months.
IsoLess(a, b) ==
    \E i \in 1..Len(a) :
        /\ \A j \in 1..(i - 1) : a[j] = b[j]
        /\ a[i] # b[i]
        /\ DigitVal(a[i]) < DigitVal(b[i])

IsoLeq(a, b) == a = b \/ IsoLess(a, b)

YearMonth(date) == SubSeq(date, 1, 7)

Buckets(h) == {YearMonth(h[i].date) : i \in DOMAIN h}

CountIn(h, bucket) == Cardinality({i \in DOMAIN h : YearMonth(h[i].date) = bucket})

FirstBucket(h) == CHOOSE b \in Buckets(h) : \A c \in Buckets(h) : IsoLeq(b, c)

LastBucket(h) == CHOOSE b \in Buckets(h) : \A c \in Buckets(h) : IsoLeq(c, b)

TwoPointTrend(h) ==
    IF CountIn(h, LastBucket(h)) < CountIn(h, FirstBucket(h)) THEN "Improving"
    ELSE IF CountIn(h, LastBucket(h)) > CountIn(h, FirstBucket(h)) THEN "Worsening"
    ELSE "Stable"

IntegerDurations(h) ==
    SelectSeq([i \in DOMAIN h |-> h[i].duration_seconds], LAMBDA d : d.tag = "int")

\* t (in tenths) is a tenth nearest to the mean of the integer durations of h.
IsMeanToOneDecimal(t, h) ==
    LET n == Len(IntegerDurations(h))
        total == SumSeq([i \in 1..n |-> IntegerDurations(h)[i].val])
    IN  n > 0 /\ 2 * Abs(t * n - 10 * total) <= n

Occurrences(h, trigger) ==
    SumSeq([i \in DOMAIN h |->
               Cardinality({k \in DOMAIN h[i].triggers : h[i].triggers[k] = trigger})])

TriggersOf(h) == UNION {Range(h[i].triggers) : i \in DOMAIN h}

TypesOf(h) == {h[i].type : i \in DOMAIN h}

IsIsoDate(s) ==
    /\ Len(s) = 10
    /\ s[5] = "-" /\ s[8] = "-"
    /\ \A i \in {1, 2, 3, 4, 6, 7, 9, 10} : s[i] \in Range(Digits)

-----------------------------------------------------------------------------
(* C1..C10: analyze_seizure_frequency *)

\* C1: for every non-empty list of well-formed seizure events, in every input
\* order, the result is a full analysis whose total_seizures is the number of
\* events of the input, events of one date being counted one by one.
C1_TotalIsInputLength ==
    Called =>
        /\ (Len(history) > 0 /\ AllDurationsInteger(history)) => IsAnalysis(seizure_analysis)
        /\ IsAnalysis(seizure_analysis) => seizure_analysis.total_seizures = Len(history)

\* C1 witness: an analysed history that is not in date order and holds two
\* events of one date.
C1_Witness ==
    /\ Called /\ IsAnalysis(seizure_analysis)
    /\ \E i \in DOMAIN history : \E j \in DOMAIN history :
           i < j /\ history[i].date = history[j].date
    /\ \E i \in 1..(Len(history) - 1) : IsoLess(history[i + 1].date, history[i].date)
    /\ seizure_analysis.total_seizures = Len(history)

\* C2: exchanging any two events of the analysed history leaves the analysis
\* result the same, field by field.  Every history of every order is a state
\* of the model and the exchanges generate all permutations, so the results
\* of all permutations of a history are equal.
C2_OrderIndependent ==
    (Called /\ NoStringDuration(history)) =>
        \A i \in DOMAIN history : \A j \in DOMAIN history :
            i < j =>
                analyze_seizure_frequency(
                    [data EXCEPT !.seizure_history =
                        [history EXCEPT ![i] = history[j], ![j] = history[i]]])
                  = seizure_analysis

\* C2 witness: an analysed history out of date order in which two different
\* events share a date.
C2_Witness ==
    /\ Called /\ IsAnalysis(seizure_analysis)
    /\ Len(history) >= 3
    /\ \E i \in DOMAIN history : \E j \in DOMAIN history :
           i < j /\ history[i].date = history[j].date /\ history[i] # history[j]
    /\ \E i \in 1..(Len(history) - 1) : IsoLess(history[i + 1].date, history[i].date)

\* C3: the trend of an analysis is one of the four classifications, and it is
\* "Insufficient data for trend analysis" exactly when the events fall in
\* fewer than two distinct (year, month) buckets.
C3_TrendClassification ==
    (Called /\ IsAnalysis(seizure_analysis)) =>
        /\ seizure_analysis.trend \in
               {"Improving", "Worsening", "Stable", "Insufficient data for trend analysis"}
        /\ seizure_analysis.trend = "Insufficient data for trend analysis"
               <=> Cardinality(Buckets(history)) < 2

\* C3 witness: all events in one calendar month, but of two different years,
\* so that there are two buckets and a trend is given.
C3_Witness ==
    /\ Called /\ IsAnalysis(seizure_analysis)
    /\ \A i \in DOMAIN history : SubSeq(history[i].date, 6, 7) = <<"0", "1">>
    /\ Cardinality(Buckets(history)) = 2
    /\ seizure_analysis.trend # "Insufficient data for trend analysis"

\* C4: with at least two buckets the trend is decided by the event counts of
\* the chronologically first and last bucket alone.
C4_TwoPointTrend ==
    (Called /\ IsAnalysis(seizure_analysis) /\ Cardinality(Buckets(history)) >= 2) =>
        seizure_analysis.trend = TwoPointTrend(history)

\* C4 witness: an interior month holds more events than the first and the
\* last month, which hold equally many, and the trend is "Stable".
C4_Witness ==
    /\ Called /\ IsAnalysis(seizure_analysis)
    /\ \E b \in Buckets(history) :
           /\ IsoLess(FirstBucket(history), b) /\ IsoLess(b, LastBucket(history))
           /\ CountIn(history, b) > CountIn(history, FirstBucket(history))
           /\ CountIn(history, FirstBucket(history)) = CountIn(history, LastBucket(history))
    /\ seizure_analysis.trend = "Stable"

\* C5: a record with an empty seizure_history, or without one of the nested
\* sections, gets the no-data result, not a failure result.
C5_NoDataResult ==
    (Called /\ (Len(history) = 0 \/ data.sections # AllSections)) =>
        seizure_analysis = [message |-> "No seizure history available"]

\* C5 witness: the analysis was called on a record that has a
\* medical_history without a neurological_history.
C5_Witness ==
    /\ Called
    /\ data.sections = {"medical_history"}
    /\ "message" \in DOMAIN seizure_analysis

\* C6: when every duration is an integer, average_duration_seconds is the
\* mean of all durations to one decimal: no tenth is nearer to the mean.
C6_AverageToOneDecimal ==
    (Called /\ Len(history) > 0 /\ AllDurationsInteger(history)) =>
        /\ IsAnalysis(seizure_analysis)
        /\ ~seizure_analysis.average_duration_seconds.nan
        /\ Len(IntegerDurations(history)) = Len(history)
        /\ IsMeanToOneDecimal(seizure_analysis.average_duration_seconds.tenths, history)

\* C6 witness: a mean that is not a whole number of tenths and lies nearer to
\* the tenth above it (61, 61 and 120 seconds give 80.7).
C6_Witness ==
    /\ Called /\ IsAnalysis(seizure_analysis) /\ AllDurationsInteger(history)
    /\ LET n == Len(history)
           total == SumSeq([i \in DOMAIN history |-> history[i].duration_seconds.val])
       IN  n > 0 /\ 2 * ((10 * total) % n) > n
    /\ ~seizure_analysis.average_duration_seconds.nan

\* C7: an event whose duration_seconds is missing or non-numeric is left out
\* of the mean while the other events decide it, and when every event is left
\* out the result still is a full analysis with a neutral average (0 or NaN).
C7_UnparsableDurationExcluded ==
    (Called /\ Len(history) > 0) =>
        /\ IsAnalysis(seizure_analysis)
        /\ IF Len(IntegerDurations(history)) > 0
           THEN /\ ~seizure_analysis.average_duration_seconds.nan
                /\ IsMeanToOneDecimal(seizure_analysis.average_duration_seconds.tenths,
                                      history)
           ELSE \/ seizure_analysis.average_duration_seconds.nan
                \/ seizure_analysis.average_duration_seconds.tenths = 0

\* C8: in a history of well-formed events of which at least one has no
\* trigger, every event counts in total_seizures, in the average and in its
\* month, and common_triggers holds the triggers of the other events only
\* (none at all when no event has a trigger).
C8_EmptyTriggerList ==
    (Called /\ AllDurationsInteger(history)
            /\ \E i \in DOMAIN history : history[i].triggers = <<>>) =>
        /\ IsAnalysis(seizure_analysis)
        /\ seizure_analysis.total_seizures = Len(history)
        /\ DOMAIN seizure_analysis.common_triggers = TriggersOf(history)
        /\ IsMeanToOneDecimal(seizure_analysis.average_duration_seconds.tenths, history)
        /\ Len(IntegerDurations(history)) = Len(history)
        /\ seizure_analysis.trend =
               IF Cardinality(Buckets(history)) < 2
               THEN "Insufficient data for trend analysis"
               ELSE TwoPointTrend(history)

\* C8 witness: the last month outnumbers the first one only through an
\* event without a trigger.
C8_Witness ==
    /\ Called /\ IsAnalysis(seizure_analysis) /\ AllDurationsInteger(history)
    /\ seizure_analysis.trend = "Worsening"
    /\ LET triggered == SelectSeq(history, LAMBDA e : e.triggers # <<>>)
       IN  /\ Len(triggered) < Len(history)
           /\ Cardinality(Buckets(triggered)) >= 2
           /\ TwoPointTrend(triggered) = "Stable"

\* The other case of C8: no event of the history has a trigger, and
\* common_triggers is empty.
C8_AllEmptyReached ==
    /\ Called /\ IsAnalysis(seizure_analysis)
    /\ Len(history) >= 2
    /\ \A i \in DOMAIN history : history[i].triggers = <<>>
    /\ DOMAIN seizure_analysis.common_triggers = {}

\* C9: common_triggers maps each trigger to the number of its occurrences over
\* all trigger lists, seizure_types maps each type to the number of its
\* events; the former counts sum to the number of trigger occurrences, the
\* latter to total_seizures.
C9_Tallies ==
    (Called /\ IsAnalysis(seizure_analysis)) =>
        /\ DOMAIN seizure_analysis.common_triggers = TriggersOf(history)
        /\ \A t \in TriggersOf(history) :
               seizure_analysis.common_triggers[t] = Occurrences(history, t)
        /\ SumOfCounts(seizure_analysis.common_triggers)
               = SumSeq([i \in DOMAIN history |-> Len(history[i].triggers)])
        /\ DOMAIN seizure_analysis.seizure_types = TypesOf(history)
        /\ \A ty \in TypesOf(history) :
               seizure_analysis.seizure_types[ty]
                   = Cardinality({i \in DOMAIN history : history[i].type = ty})
        /\ SumOfCounts(seizure_analysis.seizure_types) = seizure_analysis.total_seizures

\* C9 witness: a trigger occurs in two events, one of which has two triggers,
\* and both seizure types occur.
C9_Witness ==
    /\ Called /\ IsAnalysis(seizure_analysis)
    /\ \E t \in DOMAIN seizure_analysis.common_triggers :
           seizure_analysis.common_triggers[t] >= 2
    /\ \E i \in DOMAIN history : Len(history[i].triggers) >= 2
    /\ Cardinality(DOMAIN seizure_analysis.seizure_types) = 2

\* C10: first_recorded is the earliest and last_recorded the latest date of
\* the input, each as the YYYY-MM-DD text of an input event.
C10_FirstAndLastRecorded ==
    (Called /\ IsAnalysis(seizure_analysis)) =>
        /\ IsIsoDate(seizure_analysis.first_recorded)
        /\ IsIsoDate(seizure_analysis.last_recorded)
        /\ \E i \in DOMAIN history : history[i].date = seizure_analysis.first_recorded
        /\ \E i \in DOMAIN history : history[i].date = seizure_analysis.last_recorded
        /\ \A i \in DOMAIN history :
               /\ IsoLeq(seizure_analysis.first_recorded, history[i].date)
               /\ IsoLeq(history[i].date, seizure_analysis.last_recorded)
        /\ IsoLeq(seizure_analysis.first_recorded, seizure_analysis.last_recorded)

\* C10 witness: neither the first nor the last event of the input carries
\* the earliest or the latest date, and the latest date is a leap day.
C10_Witness ==
    /\ Called /\ IsAnalysis(seizure_analysis)
    /\ Len(history) >= 3
    /\ history[1].date # seizure_analysis.first_recorded
    /\ history[Len(history)].date # seizure_analysis.last_recorded
    /\ seizure_analysis.last_recorded = Date_2024_02_29
    /\ IsoLess(seizure_analysis.first_recorded, seizure_analysis.last_recorded)

-----------------------------------------------------------------------------
(* create_severity_gauge (utils/visualization.py) *)

\* The neural part of a record.  `present` holds the keys that are in the
\* record; a key is present only inside its parent.

Percentages == 0..100

\* The three classifications, an unrecognised one and one in another case.
StabilityValues == {"Stable", "Moderate", "Poor", "Unknown", "stable"}

\* The neural_network_analysis section: absent, or present with any of its
\* two keys; a value is carried only for a key that is present.
NetworkChoices ==
    {[present |-> {}, connectivity_strength |-> 0, network_stability |-> ""]}
    \cup { [present |-> {"neural_network_analysis"} \cup c.present \cup st.present,
            connectivity_strength |-> c.value, network_stability |-> st.value] :
              c \in {[present |-> {}, value |-> 0]}
                      \cup {[present |-> {"connectivity_strength"}, value |-> v] :
                              v \in Percentages},
              st \in {[present |-> {}, value |-> ""]}
                      \cup {[present |-> {"network_stability"}, value |-> v] :
                              v \in StabilityValues} }

\* The neural_treatment_response section, likewise.
ResponseChoices ==
    {[present |-> {}, current_medication_efficacy |-> 0],
     [present |-> {"neural_treatment_response"}, current_medication_efficacy |-> 0]}
    \cup { [present |-> {"neural_treatment_response", "current_medication_efficacy"},
            current_medication_efficacy |-> v] : v \in Percentages }

NeuralRecords ==
    {NoNeuralData}
    \cup { [present |-> {"neural_profile"} \cup n.present \cup r.present,
            connectivity_strength |-> n.connectivity_strength,
            network_stability |-> n.network_stability,
            current_medication_efficacy |-> r.current_medication_efficacy] :
              n \in NetworkChoices, r \in ResponseChoices }

\* stability_map = {'Stable': 0, 'Moderate': 50, 'Poor': 100}
stability_map == [Stable |-> 0, Moderate |-> 50, Poor |-> 100]

\* A plausible slip: the weight 0.4 is left out.
ConnectivityTermUnweighted(d) ==
    IF "connectivity_strength" \in d.present
    THEN (100 - d.connectivity_strength) * 10
    ELSE 0

\* (100 - connectivity) * 0.4, in tenths, when the key is in network_analysis.
ConnectivityTerm(d) ==
    IF "connectivity_strength" \in d.present
    THEN (100 - d.connectivity_strength) * 4
    ELSE 0

\* A plausible slip: stability_map.get(stability, 100).
StabilityTermDefaultPoor(d) ==
    IF "network_stability" \in d.present
    THEN IF d.network_stability \in DOMAIN stability_map
         THEN stability_map[d.network_stability] * 3
         ELSE 100 * 3
    ELSE 0

\* stability_map[stability] * 0.3, in tenths, for a stability of the map.
StabilityTerm(d) ==
    IF "network_stability" \in d.present /\ d.network_stability \in DOMAIN stability_map
    THEN stability_map[d.network_stability] * 3
    ELSE 0

\* (100 - efficacy) * 0.3, in tenths, when both keys are present.
EfficacyTerm(d) ==
    IF "neural_treatment_response" \in d.present
           /\ "current_medication_efficacy" \in d.present
    THEN (100 - d.current_medication_efficacy) * 3
    ELSE 0

Figure(score) == [mode |-> "gauge+number", value |-> score]

\* A plausible slip: the sum is divided by the weights of the terms present.
create_severity_gauge_normalised(d) ==
    LET weight == (IF "connectivity_strength" \in d.present THEN 4 ELSE 0)
                    + (IF "network_stability" \in d.present THEN 3 ELSE 0)
                    + (IF "current_medication_efficacy" \in d.present THEN 3 ELSE 0)
        total == ConnectivityTerm(d) + StabilityTerm(d) + EfficacyTerm(d)
    IN  Figure(IF weight = 0 THEN 0 ELSE (total * 10) \div weight)

\* A record may carry the set of the keys whose value is not a number (a
\* string such as "high"); the fields of these keys are then placeholders.
NonNumeric(d, key) ==
    /\ "non_numeric" \in DOMAIN d
    /\ key \in d.present
    /\ key \in d.non_numeric

\* The function has no try block: 100 - connectivity and 100 - efficacy raise
\* TypeError on a value that is not a number.
create_severity_gauge(d) ==
    IF NonNumeric(d, "connectivity_strength") THEN Raised("TypeError")
    ELSE IF NonNumeric(d, "current_medication_efficacy") THEN Raised("TypeError")
    ELSE Figure(0 + ConnectivityTerm(d) + StabilityTerm(d) + EfficacyTerm(d))

InitGauge ==
    /\ ServicesIdle
    /\ neural_data \in NeuralRecords
    /\ severity_gauge = NotCalled
    /\ SeizureIdle
    /\ DiagnosticsIdle

CreateSeverityGauge ==
    /\ severity_gauge' = create_severity_gauge(neural_data)
    /\ UNCHANGED <<neural_data, seizure_vars, diagnostics_vars, service_vars>>

NextGauge == CreateSeverityGauge

SpecGauge == InitGauge /\ [][NextGauge]_vars

-----------------------------------------------------------------------------
(* C15..C17: the severity score *)

GaugeCalled == severity_gauge # NotCalled

\* C15: whatever keys are present, with connectivity_strength and
\* current_medication_efficacy in 0..100, the severity score lies in [0, 100]
\* (0..1000 tenths).
C15_SeverityInRange ==
    GaugeCalled => (severity_gauge.value >= 0 /\ severity_gauge.value <= 1000)

\* C15 witness: all three terms are present at their worst and the score is
\* exactly 100.
C15_Witness ==
    /\ GaugeCalled
    /\ {"connectivity_strength", "network_stability", "current_medication_efficacy"}
           \subseteq neural_data.present
    /\ neural_data.connectivity_strength = 0
    /\ neural_data.network_stability = "Poor"
    /\ neural_data.current_medication_efficacy = 0
    /\ severity_gauge.value = 1000

\* The three terms as section 4.3 of the specification states them, in tenths.
ExpectedConnectivity ==
    IF "connectivity_strength" \in neural_data.present
    THEN (100 - neural_data.connectivity_strength) * 4 ELSE 0

ExpectedStability ==
    IF "network_stability" \in neural_data.present
    THEN (CASE neural_data.network_stability = "Stable" -> 0
            [] neural_data.network_stability = "Moderate" -> 50 * 3
            [] neural_data.network_stability = "Poor" -> 100 * 3
            [] OTHER -> 0)
    ELSE 0

ExpectedEfficacy ==
    IF "current_medication_efficacy" \in neural_data.present
    THEN (100 - neural_data.current_medication_efficacy) * 3 ELSE 0

\* C16: the score is the plain sum of the terms whose value is present, an
\* absent value adding 0 and the sum not being normalised; without a
\* neural_profile it is 0, and 72, "Moderate", 65 give 36.7.
C16_SeverityIsPlainSum ==
    GaugeCalled =>
        /\ severity_gauge.value = ExpectedConnectivity + ExpectedStability + ExpectedEfficacy
        /\ "neural_profile" \notin neural_data.present => severity_gauge.value = 0
        /\ ( /\ "connectivity_strength" \in neural_data.present
             /\ neural_data.connectivity_strength = 72
             /\ neural_data.network_stability = "Moderate"
             /\ "current_medication_efficacy" \in neural_data.present
             /\ neural_data.current_medication_efficacy = 65 )
               => severity_gauge.value = 367

\* C16 witness: only connectivity_strength is present, and the score is its
\* term alone, not scaled up.
C16_Witness ==
    /\ GaugeCalled
    /\ neural_data.present = {"neural_profile", "neural_network_analysis", "connectivity_strength"}
    /\ neural_data.connectivity_strength = 72
    /\ severity_gauge.value = 112

\* The documented scenario is reached as well.
C16_ScenarioReached ==
    /\ GaugeCalled
    /\ neural_data.connectivity_strength = 72
    /\ neural_data.network_stability = "Moderate"
    /\ neural_data.current_medication_efficacy = 65
    /\ severity_gauge.value = 367

\* C17: a network_stability outside the map adds nothing, and the
\* connectivity and efficacy terms are still added.
C17_UnrecognisedStability ==
    ( /\ GaugeCalled
      /\ "network_stability" \in neural_data.present
      /\ neural_data.network_stability \notin {"Stable", "Moderate", "Poor"} ) =>
        severity_gauge.value = ExpectedConnectivity + ExpectedEfficacy

\* C17 witness: an unrecognised stability between a connectivity and an
\* efficacy that both add to the score.
C17_Witness ==
    /\ GaugeCalled
    /\ neural_data.network_stability = "Unknown"
    /\ "connectivity_strength" \in neural_data.present
    /\ neural_data.connectivity_strength = 72
    /\ "current_medication_efficacy" \in neural_data.present
    /\ neural_data.current_medication_efficacy = 65
    /\ severity_gauge.value = 217

-----------------------------------------------------------------------------
(* create_seizure_heatmap (utils/visualization.py) *)

\* go.Figure()
EmptyFigure == [type |-> "empty", y |-> {}]

\* go.Figure(data=go.Heatmap(z=z_data, y=y_labels)): the row of a trigger is
\* its list of twelve counts, indexed from 0.
Heatmap(monthly_trigger_counts) ==
    [type |-> "heatmap", y |-> DOMAIN monthly_trigger_counts, z |-> monthly_trigger_counts]

\* A plausible slip: the month itself is taken for the index.
MonthIndexOneBased(row) == CivilFromDays(row.date).month

\* month_idx = row['month'] - 1, with df['month'] = df['date'].dt.month
MonthIndex(row) == CivilFromDays(row.date).month - 1

\* all_triggers = set(); for triggers in df['triggers']: all_triggers.update(triggers)
TriggerSet(df) == UNION {Range(df[i].triggers) : i \in DOMAIN df}

\* The two loops over the rows and over the triggers of a row: one increment
\* per occurrence of the trigger in a row of the month.
MonthlyTriggerCounts(df) ==
    [trigger \in TriggerSet(df) |->
        [month_idx \in 0..11 |->
            Cardinality({ik \in (DOMAIN df) \X (1..Len(all_triggers(df))) :
                            /\ ik[2] \in DOMAIN df[ik[1]].triggers
                            /\ df[ik[1]].triggers[ik[2]] = trigger
                            /\ MonthIndex(df[ik[1]]) = month_idx})]]

\* The function has no try block: an exception of a pandas call, of
\* set.update on the NaN of a missing triggers entry, or of a list index that
\* is a float (the month column holds floats once one date is NaT) leaves it.
create_seizure_heatmap(d) ==
    LET seizure_history == GetSeizureHistory(d)
    IN  IF IsFalsy(seizure_history) THEN EmptyFigure
        ELSE IF ~HasKey(seizure_history, "date") THEN Raised("KeyError")
        ELSE IF ~DatesParse(seizure_history) THEN Raised("ValueError")
        ELSE IF ~HasKey(seizure_history, "triggers") THEN Raised("KeyError")
        ELSE LET df == DataFrame(seizure_history)
             IN  IF \E i \in DOMAIN df : df[i].no_triggers THEN Raised("TypeError")
                 ELSE IF /\ \E i \in DOMAIN df : df[i].date = NaT
                         /\ TriggerSet(df) # {}
                      THEN Raised("TypeError")
                 ELSE Heatmap(MonthlyTriggerCounts(df))

InitHeatmap == Init

CreateSeizureHeatmap ==
    /\ seizure_heatmap' = create_seizure_heatmap(data)
    /\ data' = [data EXCEPT !.seizure_history = HistoryAfterCall(@)]
    /\ UNCHANGED <<seizure_analysis, seizure_frame, gauge_vars, diagnostics_vars, service_vars>>

NextHeatmap == CreateSeizureHeatmap

SpecHeatmap == InitHeatmap /\ [][NextHeatmap]_vars

-----------------------------------------------------------------------------
(* C18: the month-by-trigger tally *)

HeatmapCalled == seizure_heatmap # NotCalled

\* The calendar month written in a "YYYY-MM-DD" date.
MonthOf(date) == 10 * DigitVal(date[6]) + DigitVal(date[7])

OccurrencesIn(event, trigger) ==
    Cardinality({k \in DOMAIN event.triggers : event.triggers[k] = trigger})

\* C18: for a non-empty history the heatmap has a row for exactly the
\* triggers observed, each row has twelve entries, entry m - 1 is the number
\* of occurrences of the trigger in events of calendar month m of any year,
\* and the entries of a row sum to the occurrences of the trigger.
C18_MonthByTriggerTally ==
    (HeatmapCalled /\ Len(history) > 0) =>
        /\ seizure_heatmap.type = "heatmap"
        /\ DOMAIN seizure_heatmap.z = TriggersOf(history)
        /\ \A t \in TriggersOf(history) :
               /\ DOMAIN seizure_heatmap.z[t] = 0..11
               /\ \A m \in 1..12 :
                      seizure_heatmap.z[t][m - 1] =
                          SumSeq([i \in DOMAIN history |->
                                     IF MonthOf(history[i].date) = m
                                     THEN OccurrencesIn(history[i], t) ELSE 0])
               /\ SumSeq([m \in 1..12 |-> seizure_heatmap.z[t][m - 1]])
                      = Occurrences(history, t)

\* C18 witness: "Stress" occurs in January of two different years and in
\* another month, and its January entry counts both years.
C18_Witness ==
    /\ HeatmapCalled /\ seizure_heatmap.type = "heatmap"
    /\ "Stress" \in DOMAIN seizure_heatmap.z
    /\ seizure_heatmap.z["Stress"][0] = 2
    /\ seizure_heatmap.z["Stress"][2] = 1
    /\ \E i \in DOMAIN history : \E j \in DOMAIN history :
           /\ MonthOf(history[i].date) = 1 /\ MonthOf(history[j].date) = 1
           /\ SubSeq(history[i].date, 1, 4) # SubSeq(history[j].date, 1, 4)

-----------------------------------------------------------------------------
(* Diagnostic tests: the input records *)

\* Longest test list given to process_diagnostic_tests.
MaxTests == 4

Date_2023_01_05 == <<"2", "0", "2", "3", "-", "0", "1", "-", "0", "5">>
Date_2023_03_10 == <<"2", "0", "2", "3", "-", "0", "3", "-", "1", "0">>

\* Result strings: a number and a unit, a qualitative result, a number with
\* no space before its unit, and a whole number.
Result_8_5 == <<"8", ".", "5", " ", "u", "g", "/", "m", "L">>
Result_14_2 == <<"1", "4", ".", "2", " ", "u", "g", "/", "m", "L">>
Result_3_1 == <<"3", ".", "1", " ", "u", "g", "/", "m", "L">>
Result_Normal == <<"N", "o", "r", "m", "a", "l">>
Result_NoSpace == <<"8", ".", "5", "u", "g", "/", "m", "L">>
Result_12 == <<"1", "2", " ", "H", "z">>

\* Reference ranges: "min-max unit", "N/A", a range whose maximum is a word,
\* and a range whose minimum is negative.
Range_4_12 == <<"4", ".", "0", "-", "1", "2", ".", "0", " ", "u", "g", "/", "m", "L">>
Range_NA == <<"N", "/", "A">>
Range_4_High == <<"4", ".", "0", "-", "h", "i", "g", "h">>
Range_Negative == <<"-", "2", ".", "0", "-", "2", ".", "0">>

DiagnosticTest(date, test, result, reference_range, flag) ==
    [date |-> date, test |-> test, result |-> result,
     reference_range |-> reference_range, flag |-> flag]

\* The tests a list is drawn from: the two tests of the documented scenario,
\* further tests of the same name (a qualitative result, a result below the
\* range on the earliest date), the same name in lower case with a range that
\* starts with a sign, and a test without a reference range.
DiagnosticTests ==
    { DiagnosticTest(Date_2023_01_05, "AED Level", Result_8_5, Range_4_12, FALSE),
      DiagnosticTest(Date_2023_03_10, "AED Level", Result_14_2, Range_4_12, TRUE),
      DiagnosticTest(Date_2023_06_10, "AED Level", Result_Normal, Range_4_12, TRUE),
      DiagnosticTest(Date_2023_01_05, "AED Level", Result_3_1, Range_4_High, TRUE),
      DiagnosticTest(Date_2023_03_10, "aed level", Result_NoSpace, Range_Negative, FALSE),
      DiagnosticTest(Date_2023_06_10, "aed level", Result_3_1, Range_Negative, TRUE),
      DiagnosticTest(Date_2023_01_05, "EEG", Result_Normal, Range_NA, FALSE),
      DiagnosticTest(Date_2024_02_29, "EEG", Result_12, Range_NA, TRUE) }

TestLists(max) == UNION {[1..n -> DiagnosticTests] : n \in 0..max}

\* A record without the diagnostic_tests key, or with a list of tests.
DiagnosticsRecords(max) ==
    {NoDiagnosticsData}
    \cup {[sections |-> {"diagnostic_tests"}, diagnostic_tests |-> t] : t \in TestLists(max)}

\* data.get('diagnostic_tests', [])
GetDiagnosticTests(d) ==
    IF "diagnostic_tests" \in d.sections THEN d.diagnostic_tests ELSE <<>>

-----------------------------------------------------------------------------
(* process_diagnostic_tests (utils/data_processor.py) *)

\* pd.DataFrame(tests) with df['date'] converted: one row per test.  The flag
\* of a test without the key is NaN, which no comparison with True selects.
TestFrame(tests) ==
    [i \in DOMAIN tests |->
        [date |-> to_datetime(tests[i].date),
         test |-> IF Lacks(tests[i], "test") THEN NaNString ELSE tests[i].test,
         result |-> tests[i].result, reference_range |-> tests[i].reference_range,
         flag |-> ~Lacks(tests[i], "flag") /\ tests[i].flag]]

\* df[df['flag'] == True]
Flagged(df) == SelectSeq(df, LAMBDA row : row.flag = TRUE)

\* A plausible slip: the share is taken of the number of test types.
FlaggedPercentagePerType(df) ==
    IF Len(df) > 0
    THEN [sum |-> 100 * Len(Flagged(df)),
          count |-> Cardinality({df[i].test : i \in DOMAIN df})]
    ELSE [sum |-> 0, count |-> 1]

\* len(flagged_tests) / len(df) * 100 if len(df) > 0 else 0, as a fraction.
FlaggedPercentage(df) ==
    IF Len(df) > 0
    THEN [sum |-> 100 * Len(Flagged(df)), count |-> Len(df)]
    ELSE [sum |-> 0, count |-> 1]

\* A plausible slip: only a name that repeats the name just before it is
\* dropped (as itertools.groupby does).
RECURSIVE unique_consecutive(_)
unique_consecutive(values) ==
    IF values = <<>> THEN <<>>
    ELSE LET front == unique_consecutive(SubSeq(values, 1, Len(values) - 1))
             last == values[Len(values)]
         IN  IF front # <<>> /\ front[Len(front)] = last THEN front
             ELSE Append(front, last)

\* df['test'].unique(): the distinct names in order of first appearance.
RECURSIVE unique(_)
unique(values) ==
    IF values = <<>> THEN <<>>
    ELSE LET front == unique(SubSeq(values, 1, Len(values) - 1))
             last == values[Len(values)]
         IN  IF last \in Range(front) THEN front ELSE Append(front, last)

\* The lower-case form of the test names of the model.
Lower(name) == IF name = "AED Level" THEN "aed level" ELSE name

\* A plausible slip: the names are compared without regard to case.
TestRowsIgnoringCase(df, test_type) ==
    SelectSeq(df, LAMBDA row : Lower(row.test) = Lower(test_type))

\* df[df['test'] == test_type]
TestRows(df, test_type) == SelectSeq(df, LAMBDA row : row.test = test_type)

TestSummary(test_df) ==
    [count |-> Len(test_df),
     first_date |-> strftime(MinDate(test_df)),
     last_date |-> strftime(MaxDate(test_df)),
     flagged_count |-> Len(Flagged(test_df))]

\* A plausible slip: an empty list is reported as a failure.
NoDiagnosticTestsAsError == [error |-> "No diagnostic tests available"]

NoDiagnosticTests == [message |-> "No diagnostic tests available"]

\* A test without the test key gives the name NaN, which equals nothing:
\* its group is empty, the earliest date of the group is NaT, and
\* NaT.strftime raises ValueError.
\* Of the wrong structures, a value without .get raises AttributeError, a
\* falsy value takes the early return, pd.DataFrame raises ValueError on a
\* number, on a string and on one test dict (all of its values are scalars),
\* and a list of numbers has no date column.
process_diagnostic_tests(d) ==
    LET tests == GetDiagnosticTests(d)
    IN  IF StructureOf(d) = "not_a_dict" THEN Failure("AttributeError")
        ELSE IF StructureOf(d) \in FalsyStructures THEN NoDiagnosticTests
        ELSE IF StructureOf(d) \in {"number", "string", "single_record"}
             THEN Failure("ValueError")
        ELSE IF StructureOf(d) = "list_of_numbers" THEN Failure("KeyError")
        ELSE IF IsFalsy(tests) THEN NoDiagnosticTests
        ELSE LET df == sort_values(TestFrame(tests))
                 test_types == unique([i \in DOMAIN df |-> df[i].test])
             IN  IF ~HasColumn(df, "date") THEN Failure("KeyError")
                 ELSE IF ~HasKey(tests, "flag") THEN Failure("KeyError")
                 ELSE IF ~HasKey(tests, "test") THEN Failure("KeyError")
                 ELSE IF \E i \in DOMAIN tests : Lacks(tests[i], "test")
                      THEN Failure("ValueError")
                 ELSE [total_tests |-> Len(df),
                       flagged_percentage |-> round(FlaggedPercentage(df)),
                       test_types |-> test_types,
                       test_summaries |->
                           [test_type \in Range(test_types) |->
                               TestSummary(TestRows(df, test_type))],
                       latest_test_date |-> strftime(MaxDate(df))]

InitDiagnostics ==
    /\ ServicesIdle
    /\ diagnostics_data \in DiagnosticsRecords(MaxTests)
    /\ diagnostic_analysis = NotCalled
    /\ diagnostics_view = NotCalled
    /\ SeizureIdle
    /\ GaugeIdle

ProcessDiagnosticTests ==
    /\ diagnostic_analysis' = process_diagnostic_tests(diagnostics_data)
    /\ UNCHANGED <<diagnostics_data, diagnostics_view, seizure_vars, gauge_vars, service_vars>>

NextDiagnostics == ProcessDiagnosticTests

SpecDiagnostics == InitDiagnostics /\ [][NextDiagnostics]_vars

-----------------------------------------------------------------------------
(* Claims about process_diagnostic_tests *)

DiagnosticsCalled == diagnostic_analysis # NotCalled

\* The list the record carries, empty when the key is absent.
given_tests ==
    IF "diagnostic_tests" \in diagnostics_data.sections
    THEN diagnostics_data.diagnostic_tests
    ELSE <<>>

\* A full result, as opposed to a no-data or a failure result.
IsDiagnosticAnalysis(r) == "total_tests" \in DOMAIN r

NumberFlagged(tests) == Cardinality({i \in DOMAIN tests : tests[i].flag})

NumberNamed(tests, name) == Cardinality({i \in DOMAIN tests : tests[i].test = name})

\* C11: for a non-empty list, flagged_percentage is flagged / total * 100 to
\* the nearest tenth; it lies in [0, 100], is 100.0 when every test is
\* flagged, and is 50.0 for one flagged test of two.
C11_FlaggedPercentage ==
    (DiagnosticsCalled /\ Len(given_tests) > 0) =>
        /\ IsDiagnosticAnalysis(diagnostic_analysis)
        /\ LET n == Len(given_tests)
               k == NumberFlagged(given_tests)
               p == diagnostic_analysis.flagged_percentage
           IN  /\ ~p.nan
               /\ 2 * Abs(p.tenths * n - 1000 * k) <= n
               /\ p.tenths \in 0..1000
               /\ (k = n => p.tenths = 1000)
               /\ ((k = 1 /\ n = 2) => p.tenths = 500)

\* Two flagged tests of three, of two types: 66.7, a value that needs rounding.
C11_Witness ==
    /\ DiagnosticsCalled
    /\ Len(given_tests) = 3
    /\ NumberFlagged(given_tests) = 2
    /\ Cardinality({given_tests[i].test : i \in DOMAIN given_tests}) = 2
    /\ IsDiagnosticAnalysis(diagnostic_analysis)
    /\ diagnostic_analysis.flagged_percentage.tenths = 667

\* C12 as stated: an empty test list yields flagged_percentage 0.
C12_EmptyListReportsZero ==
    (DiagnosticsCalled /\ "diagnostic_tests" \in diagnostics_data.sections
        /\ Len(given_tests) = 0) =>
        /\ "flagged_percentage" \in DOMAIN diagnostic_analysis
        /\ diagnostic_analysis.flagged_percentage.tenths = 0

\* C12, amended: an empty test list yields the no-data result, which carries
\* no flagged_percentage and no error; a flagged_percentage is reported only
\* with a positive total_tests, so no division by zero takes place.
C12_EmptyListIsNoData ==
    DiagnosticsCalled =>
        /\ ("diagnostic_tests" \in diagnostics_data.sections /\ Len(given_tests) = 0) =>
              /\ "message" \in DOMAIN diagnostic_analysis
              /\ "flagged_percentage" \notin DOMAIN diagnostic_analysis
              /\ "error" \notin DOMAIN diagnostic_analysis
        /\ "flagged_percentage" \in DOMAIN diagnostic_analysis =>
              /\ diagnostic_analysis.total_tests > 0
              /\ ~diagnostic_analysis.flagged_percentage.nan

\* The record has the key and its list is empty.
C12_Witness ==
    /\ DiagnosticsCalled
    /\ "diagnostic_tests" \in diagnostics_data.sections
    /\ diagnostics_data.diagnostic_tests = <<>>
    /\ DOMAIN diagnostic_analysis = {"message"}

\* C13: with no diagnostic_tests key, or an empty list, the result is
\* {"message": "No diagnostic tests available"}: not an error, nothing raised.
C13_NoTestsMessage ==
    (DiagnosticsCalled /\ Len(given_tests) = 0) =>
        diagnostic_analysis = [message |-> "No diagnostic tests available"]

\* The record has no diagnostic_tests key at all.
C13_Witness ==
    /\ DiagnosticsCalled
    /\ "diagnostic_tests" \notin diagnostics_data.sections
    /\ "message" \in DOMAIN diagnostic_analysis

RECURSIVE SumOver(_, _, _)
\* The sum of one field over the entries of test_summaries named in keys.
SumOver(summaries, keys, field) ==
    IF keys = {} THEN 0
    ELSE LET key == CHOOSE x \in keys : TRUE
         IN  summaries[key][field] + SumOver(summaries, keys \ {key}, field)

\* C14: test_summaries has one entry per distinct test name, compared
\* exactly; the entry holds the number of tests of that name, their earliest
\* and latest date as YYYY-MM-DD, and the number of them flagged; the counts
\* sum to total_tests and the flagged counts to the number of flagged tests.
C14_TestSummaries ==
    (DiagnosticsCalled /\ Len(given_tests) > 0) =>
        /\ IsDiagnosticAnalysis(diagnostic_analysis)
        /\ LET summaries == diagnostic_analysis.test_summaries
               names == {given_tests[i].test : i \in DOMAIN given_tests}
           IN  /\ DOMAIN summaries = names
               /\ \A name \in names :
                    LET mine == {i \in DOMAIN given_tests : given_tests[i].test = name}
                        entry == summaries[name]
                    IN  /\ DOMAIN entry = {"count", "first_date", "last_date", "flagged_count"}
                        /\ entry.count = Cardinality(mine)
                        /\ entry.flagged_count =
                               Cardinality({i \in mine : given_tests[i].flag})
                        /\ IsIsoDate(entry.first_date)
                        /\ IsIsoDate(entry.last_date)
                        /\ \E i \in mine : given_tests[i].date = entry.first_date
                        /\ \E i \in mine : given_tests[i].date = entry.last_date
                        /\ \A i \in mine : /\ IsoLeq(entry.first_date, given_tests[i].date)
                                           /\ IsoLeq(given_tests[i].date, entry.last_date)
               /\ SumOver(summaries, names, "count") = diagnostic_analysis.total_tests
               /\ diagnostic_analysis.total_tests = Len(given_tests)
               /\ SumOver(summaries, names, "flagged_count") = NumberFlagged(given_tests)

\* Names that differ only in case, and a name with tests on different dates
\* given latest first.
C14_Witness ==
    /\ DiagnosticsCalled
    /\ IsDiagnosticAnalysis(diagnostic_analysis)
    /\ {"AED Level", "aed level"} \subseteq DOMAIN diagnostic_analysis.test_summaries
    /\ diagnostic_analysis.test_summaries["AED Level"].count = 2
    /\ diagnostic_analysis.test_summaries["AED Level"].flagged_count = 1
    /\ diagnostic_analysis.test_summaries["AED Level"].first_date = Date_2023_01_05
    /\ diagnostic_analysis.test_summaries["AED Level"].last_date = Date_2023_03_10
    /\ given_tests[1].date = Date_2023_03_10
    /\ given_tests[1].test = "AED Level"

-----------------------------------------------------------------------------
(* String operations used by display_diagnostic_tests *)

\* The index of the first occurrence of sep in s; Len(s) + 1 when there is none.
Find(s, sep) ==
    IF \E i \in DOMAIN s : s[i] = sep
    THEN CHOOSE i \in DOMAIN s : s[i] = sep /\ \A j \in 1..(i - 1) : s[j] # sep
    ELSE Len(s) + 1

RECURSIVE split(_)
\* str.split(): the whitespace-delimited tokens; the strings of the model
\* hold no whitespace other than the space.
split(s) ==
    IF s = <<>> THEN <<>>
    ELSE IF Head(s) = " " THEN split(Tail(s))
    ELSE LET end == Find(s, " ")
         IN  <<SubSeq(s, 1, end - 1)>> \o split(SubSeq(s, end, Len(s)))

RECURSIVE split_on(_, _)
\* str.split(sep): the parts between the occurrences of sep.
split_on(s, sep) ==
    LET at == Find(s, sep)
    IN  IF at > Len(s) THEN <<s>>
        ELSE <<SubSeq(s, 1, at - 1)>> \o split_on(SubSeq(s, at + 1, Len(s)), sep)

RECURSIVE strip(_)
\* str.strip()
strip(s) ==
    IF s = <<>> THEN s
    ELSE IF Head(s) = " " THEN strip(Tail(s))
    ELSE IF s[Len(s)] = " " THEN strip(SubSeq(s, 1, Len(s) - 1))
    ELSE s

\* None, in the shape of a parsed number.
None == [ok |-> FALSE, mantissa |-> 0, decimals |-> 0]

RECURSIVE DigitsValue(_)
\* The whole number written by a string of digits.
DigitsValue(s) ==
    IF s = <<>> THEN 0
    ELSE 10 * DigitsValue(SubSeq(s, 1, Len(s) - 1)) + DigitVal(s[Len(s)])

\* float(token): an optional sign, digits with at most one point and at least
\* one digit; anything else is a ValueError, given here as None.  The value
\* is mantissa / 10^decimals.  The exponent, underscore, inf and nan forms
\* that float() also takes do not occur in the strings of the model.
float(token) ==
    LET signed == token # <<>> /\ Head(token) \in {"+", "-"}
        body == IF signed THEN Tail(token) ELSE token
        point == Find(body, ".")
        whole == SubSeq(body, 1, point - 1)
        fraction == SubSeq(body, point + 1, Len(body))
        digits == whole \o fraction
    IN  IF /\ digits # <<>>
           /\ \A i \in DOMAIN digits : digits[i] \in Range(Digits)
        THEN [ok |-> TRUE,
              mantissa |-> IF signed /\ Head(token) = "-"
                           THEN 0 - DigitsValue(digits) ELSE DigitsValue(digits),
              decimals |-> Len(fraction)]
        ELSE None

\* float(s.split()[0]) with both of its failures caught: no token
\* (IndexError) and a token that is not a number (ValueError).
FirstTokenFloat(s) ==
    LET tokens == split(s)
    IN  IF tokens = <<>> THEN None ELSE float(tokens[1])

RECURSIVE Pow10(_)
Pow10(n) == IF n = 0 THEN 1 ELSE 10 * Pow10(n - 1)

\* a < b for two parsed numbers.
FloatLess(a, b) == a.mantissa * Pow10(b.decimals) < b.mantissa * Pow10(a.decimals)

-----------------------------------------------------------------------------
(* display_diagnostic_tests (components/diagnostics.py) *)

\* What the page shows after one run of the script.  The results table and
\* the line chart show the rows of filtered_df and of chart_data; of the
\* table only its number of rows is kept.
\* The interpretation section (lines 153-184) adds text for the test
\* type "Antiepileptic Drug Level" alone, a name the tests of the model do not
\* carry, and the fixed recommendations that follow depend on no data.
Warning == [shown |-> "warning"]

Info == [shown |-> "info"]

\* No "Test Trends" section: no test type can be plotted.
NoTrend == [kind |-> "none"]

\* The section with no parsable result for the selected test.
EmptyTrend(selected_trend_test) ==
    [kind |-> "empty", selected_trend_test |-> selected_trend_test]

\* A plausible slip: the statistics are taken after the rows without a
\* numeric result have been dropped.
FilteredFrameNumericOnly(tests_df, selected_test_types) ==
    SelectSeq(tests_df, LAMBDA row : /\ row.test \in selected_test_types
                                     /\ FirstTokenFloat(row.result).ok)

\* tests_df[tests_df['test'].isin(selected_test_types)]
FilteredFrame(tests_df, selected_test_types) ==
    SelectSeq(tests_df, LAMBDA row : row.test \in selected_test_types)

\* (flagged_tests / total_tests * 100) if total_tests > 0 else 0
DisplayedPercentage(flagged_tests, total_tests) ==
    IF total_tests > 0
    THEN [sum |-> 100 * flagged_tests, count |-> total_tests]
    ELSE [sum |-> 0, count |-> 1]

\* result.str.contains(r'[0-9]')
ContainsDigit(result) == \E i \in DOMAIN result : result[i] \in Range(Digits)

\* The test types offered for a trend: more than one test, and a digit in
\* some result.
time_series_tests(tests_df) ==
    SelectSeq(unique([i \in DOMAIN tests_df |-> tests_df[i].test]),
              LAMBDA test :
                  LET test_df == TestRows(tests_df, test)
                  IN  /\ Len(test_df) > 1
                      /\ \E i \in DOMAIN test_df : ContainsDigit(test_df[i].result))

extract_numeric(result_str) == FirstTokenFloat(result_str)

\* plot_df with its numeric_result column, after dropna.
PlotFrame(tests_df, selected_trend_test) ==
    LET test_df == TestRows(tests_df, selected_trend_test)
        with_numeric ==
            [i \in DOMAIN test_df |->
                [date |-> test_df[i].date,
                 reference_range |-> test_df[i].reference_range,
                 flag |-> test_df[i].flag,
                 numeric_result |-> extract_numeric(test_df[i].result)]]
    IN  SelectSeq(with_numeric, LAMBDA row : row.numeric_result.ok)

\* float(part.strip().split()[0]), None on either failure.
ParseBound(part) == FirstTokenFloat(strip(part))

\* Lines 110-119: both bounds start as None; the minimum is assigned before
\* the maximum is parsed, so a failure on the maximum leaves it assigned.
ParseReferenceRange(ref_range) ==
    IF "-" \notin Range(ref_range)
    THEN [ref_min |-> None, ref_max |-> None]
    ELSE LET ref_parts == split_on(ref_range, "-")
             parsed_min == ParseBound(ref_parts[1])
             parsed_max == ParseBound(ref_parts[2])
         IN  IF ~parsed_min.ok THEN [ref_min |-> None, ref_max |-> None]
             ELSE IF ~parsed_max.ok THEN [ref_min |-> parsed_min, ref_max |-> None]
             ELSE [ref_min |-> parsed_min, ref_max |-> parsed_max]

\* A plausible slip: one parsed bound is enough for the comparison.
EitherBoundParsed(ref_min, ref_max) == ref_min.ok \/ ref_max.ok

\* ref_min is not None and ref_max is not None
BothBoundsParsed(ref_min, ref_max) == ref_min.ok /\ ref_max.ok

TrendChart(tests_df, selected_trend_test) ==
    LET plot_df == PlotFrame(tests_df, selected_trend_test)
    IN  IF plot_df = <<>> THEN EmptyTrend(selected_trend_test)
        ELSE LET sorted == sort_values(plot_df)
                 bounds == ParseReferenceRange(sorted[1].reference_range)
                 chart_data == [i \in DOMAIN sorted |->
                                   [date |-> sorted[i].date,
                                    value |-> sorted[i].numeric_result,
                                    flag |-> sorted[i].flag]]
                 compared == BothBoundsParsed(bounds.ref_min, bounds.ref_max)
             IN  [kind |-> "chart",
                  selected_trend_test |-> selected_trend_test,
                  chart_data |-> chart_data,
                  ref_range |-> sorted[1].reference_range,
                  ref_min |-> bounds.ref_min,
                  ref_max |-> bounds.ref_max,
                  compared |-> compared,
                  below_range |->
                      IF compared
                      THEN SelectSeq(chart_data,
                               LAMBDA row : FloatLess(row.value, bounds.ref_min))
                      ELSE <<>>,
                  above_range |->
                      IF compared
                      THEN SelectSeq(chart_data,
                               LAMBDA row : FloatLess(bounds.ref_max, row.value))
                      ELSE <<>>]

\* One run of the script with the values of its two widgets.
display_diagnostic_tests(patient_data, selected_test_types, selected_trend_test) ==
    LET diagnostic_tests == GetDiagnosticTests(patient_data)
    IN  IF IsFalsy(diagnostic_tests) THEN Warning
        ELSE IF selected_test_types = {} THEN Info
        ELSE LET tests_df == TestFrame(diagnostic_tests)
                 filtered_df == FilteredFrame(tests_df, selected_test_types)
                 total_tests == Len(filtered_df)
                 flagged_tests == Len(Flagged(filtered_df))
             IN  [shown |-> "results",
                  selected_test_types |-> selected_test_types,
                  total_tests |-> total_tests,
                  flagged_tests |-> flagged_tests,
                  flagged_percentage |->
                      round(DisplayedPercentage(flagged_tests, total_tests)),
                  table_rows |-> Len(filtered_df),
                  time_series_tests |-> time_series_tests(tests_df),
                  trend |-> IF time_series_tests(tests_df) = <<>> THEN NoTrend
                            ELSE TrendChart(tests_df, selected_trend_test)]

\* The options of the multiselect: the test types of the record.
MultiselectOptions(patient_data) ==
    {GetDiagnosticTests(patient_data)[i].test :
        i \in DOMAIN GetDiagnosticTests(patient_data)}

\* The options of the selectbox; it is not drawn when there are none, which
\* the empty name stands for.
SelectboxOptions(patient_data) ==
    LET options == time_series_tests(TestFrame(GetDiagnosticTests(patient_data)))
    IN  IF options = <<>> THEN {""} ELSE Range(options)

\* Longest test list given to display_diagnostic_tests.
MaxDisplayedTests == 3

InitDisplay ==
    /\ ServicesIdle
    /\ diagnostics_data \in DiagnosticsRecords(MaxDisplayedTests)
    /\ diagnostic_analysis = NotCalled
    /\ diagnostics_view = NotCalled
    /\ SeizureIdle
    /\ GaugeIdle

DisplayDiagnosticTests ==
    /\ \E selected_test_types \in SUBSET MultiselectOptions(diagnostics_data) :
         \E selected_trend_test \in SelectboxOptions(diagnostics_data) :
            diagnostics_view' = display_diagnostic_tests(
                diagnostics_data, selected_test_types, selected_trend_test)
    /\ UNCHANGED <<diagnostics_data, diagnostic_analysis, seizure_vars, gauge_vars, service_vars>>

NextDisplay == DisplayDiagnosticTests

SpecDisplay == InitDisplay /\ [][NextDisplay]_vars

-----------------------------------------------------------------------------
(* Claims about display_diagnostic_tests *)

\* The statistics, the table and the trend section were drawn.
ResultsShown == "total_tests" \in DOMAIN diagnostics_view

ChartShown == ResultsShown /\ diagnostics_view.trend.kind = "chart"

\* The results whose characters up to the first whitespace write a number.
HasLeadingNumber(result) == result \in {Result_8_5, Result_14_2, Result_3_1, Result_12}

\* That number, in tenths.
LeadingNumberTenths(result) ==
    CASE result = Result_8_5 -> 85
      [] result = Result_14_2 -> 142
      [] result = Result_3_1 -> 31
      [] result = Result_12 -> 120

\* A plotted value, in tenths.
ValueTenths(value) ==
    IF value.decimals = 0 THEN 10 * value.mantissa ELSE value.mantissa

\* C19: a test whose result has no leading token that parses as a number is
\* left out of the trend series only; it is counted in the total, in the
\* flagged count and in the flagged percentage of the selected test types.
C19_NonNumericOnlyOutOfTrend ==
    ResultsShown =>
        LET view == diagnostics_view
            counted == {i \in DOMAIN given_tests :
                            given_tests[i].test \in view.selected_test_types}
            flagged == {i \in counted : given_tests[i].flag}
        IN  /\ view.total_tests = Cardinality(counted)
            /\ view.flagged_tests = Cardinality(flagged)
            /\ 2 * Abs(view.flagged_percentage.tenths * Cardinality(counted)
                       - 1000 * Cardinality(flagged)) <= Cardinality(counted)
            /\ view.trend.kind \in {"chart", "empty"} =>
                 LET numeric == {i \in DOMAIN given_tests :
                                    /\ given_tests[i].test = view.trend.selected_trend_test
                                    /\ HasLeadingNumber(given_tests[i].result)}
                 IN  IF view.trend.kind = "empty" THEN numeric = {}
                     ELSE LET series == view.trend.chart_data
                          IN  /\ Len(series) = Cardinality(numeric)
                              /\ \A i \in numeric : \E j \in DOMAIN series :
                                    /\ strftime(series[j].date) = given_tests[i].date
                                    /\ ValueTenths(series[j].value) =
                                           LeadingNumberTenths(given_tests[i].result)
                                    /\ series[j].flag = given_tests[i].flag
                              /\ \A j \in DOMAIN series : \E i \in numeric :
                                    /\ strftime(series[j].date) = given_tests[i].date
                                    /\ ValueTenths(series[j].value) =
                                           LeadingNumberTenths(given_tests[i].result)

\* A flagged "Normal" result among two numeric results of the plotted test:
\* three tests counted, two of them plotted.
C19_Witness ==
    /\ ChartShown
    /\ diagnostics_view.trend.selected_trend_test = "AED Level"
    /\ "AED Level" \in diagnostics_view.selected_test_types
    /\ \E i \in DOMAIN given_tests :
          /\ given_tests[i].test = "AED Level"
          /\ given_tests[i].result = Result_Normal
          /\ given_tests[i].flag
    /\ diagnostics_view.total_tests = 3
    /\ diagnostics_view.flagged_tests >= 1
    /\ Len(diagnostics_view.trend.chart_data) = 2

\* The reference ranges by what they write: a '-' separator, a number first
\* on the part before the first separator, a number first on the part after it.
HasSeparator(ref_range) == ref_range \in {Range_4_12, Range_4_High, Range_Negative}

MinimumParses(ref_range) == ref_range \in {Range_4_12, Range_4_High}

MaximumParses(ref_range) == ref_range \in {Range_4_12, Range_Negative}

C20_OutOfRangeReached ==
    /\ ChartShown
    /\ diagnostics_view.trend.compared
    /\ Len(diagnostics_view.trend.below_range) = 1
    /\ Len(diagnostics_view.trend.above_range) = 1

-----------------------------------------------------------------------------
(* Records with malformed or missing content, given to the four analytics
   functions *)

\* Longest list of events or of tests with malformed content.
MaxMalformed == 2

\* A date string that is no date.
Date_Unknown == <<"u", "n", "k", "n", "o", "w", "n">>

\* An event without the keys of lacks.
LackingEvent(event, lacks) ==
    [date |-> IF "date" \in lacks THEN <<>> ELSE event.date,
     type |-> IF "type" \in lacks THEN "" ELSE event.type,
     duration_seconds |-> event.duration_seconds,
     triggers |-> IF "triggers" \in lacks THEN <<>> ELSE event.triggers,
     lacks |-> lacks]

\* Two well-formed events, and events that lack one key or carry a date that
\* cannot be parsed; an event without a date is given with and without a
\* trigger.
MalformedEvents ==
    { SeizureEvent(Date_2023_01_15, "Focal", IntDuration(120), <<"Stress">>),
      SeizureEvent(Date_2023_06_10, "Generalized", IntDuration(45), <<>>),
      SeizureEvent(Date_2023_03_02, "Focal", MissingDuration, <<"Stress">>),
      SeizureEvent(Date_Unknown, "Focal", IntDuration(30), <<"Stress">>),
      LackingEvent(SeizureEvent(<<>>, "Focal", IntDuration(90), <<"Stress">>), {"date"}),
      LackingEvent(SeizureEvent(<<>>, "Focal", IntDuration(90), <<>>), {"date"}),
      LackingEvent(SeizureEvent(Date_2023_03_02, "", IntDuration(60), <<"Stress">>),
                   {"type"}),
      LackingEvent(SeizureEvent(Date_2023_03_02, "Focal", IntDuration(60), <<>>),
                   {"triggers"}) }

MalformedPatientRecords(max) ==
    {[sections |-> AllSections, seizure_history |-> h] :
        h \in UNION {[1..n -> MalformedEvents] : n \in 1..max}}

\* A test without the keys of lacks.
LackingTest(test, lacks) ==
    [date |-> test.date,
     test |-> IF "test" \in lacks THEN "" ELSE test.test,
     result |-> test.result, reference_range |-> test.reference_range,
     flag |-> IF "flag" \in lacks THEN FALSE ELSE test.flag,
     lacks |-> lacks]

MalformedTests ==
    { DiagnosticTest(Date_2023_01_05, "AED Level", Result_8_5, Range_4_12, FALSE),
      DiagnosticTest(Date_2023_03_10, "AED Level", Result_14_2, Range_4_12, TRUE),
      LackingTest(DiagnosticTest(Date_2023_03_10, "EEG", Result_Normal, Range_NA, FALSE),
                  {"flag"}),
      LackingTest(DiagnosticTest(Date_2023_06_10, "", Result_Normal, Range_NA, TRUE),
                  {"test"}) }

MalformedDiagnosticsRecords(max) ==
    {[sections |-> {"diagnostic_tests"}, diagnostic_tests |-> t] :
        t \in UNION {[1..n -> MalformedTests] : n \in 1..max}}

\* Neural profiles in which connectivity_strength, current_medication_efficacy
\* or both are a string, each key being present or absent.
MalformedNeuralRecords ==
    {[present |-> {"neural_profile", "neural_network_analysis", "network_stability",
                   "neural_treatment_response"} \cup keys,
      connectivity_strength |-> 75,
      network_stability |-> "Moderate",
      current_medication_efficacy |-> 60,
      non_numeric |-> strings] :
        keys \in SUBSET {"connectivity_strength", "current_medication_efficacy"},
        strings \in SUBSET {"connectivity_strength", "current_medication_efficacy"}}

\* One of the three parts of the record has malformed content.
InitMalformed ==
    /\ ServicesIdle
    /\ seizure_analysis = NotCalled
    /\ seizure_heatmap = NotCalled
    /\ seizure_frame = NoFrame
    /\ severity_gauge = NotCalled
    /\ diagnostic_analysis = NotCalled
    /\ diagnostics_view = NotCalled
    /\ \/ /\ data \in MalformedPatientRecords(MaxMalformed)
          /\ neural_data = NoNeuralData
          /\ diagnostics_data = NoDiagnosticsData
       \/ /\ data = NoSeizureData
          /\ neural_data \in MalformedNeuralRecords
          /\ diagnostics_data = NoDiagnosticsData
       \/ /\ data = NoSeizureData
          /\ neural_data = NoNeuralData
          /\ diagnostics_data \in MalformedDiagnosticsRecords(MaxMalformed)

NextMalformed ==
    \/ AnalyzeSeizureFrequency
    \/ CreateSeizureHeatmap
    \/ CreateSeverityGauge
    \/ ProcessDiagnosticTests

SpecMalformed == InitMalformed /\ [][NextMalformed]_vars

-----------------------------------------------------------------------------
(* Claims about malformed content *)

\* A value came back to the caller.
Returned(result) == "raised" \notin DOMAIN result

\* C21: for every record whose content is malformed or missing, each of the
\* four analytics functions returns a value to the caller and never raises.
C21_NeverRaises ==
    /\ Returned(seizure_analysis)
    /\ Returned(diagnostic_analysis)
    /\ Returned(severity_gauge)
    /\ Returned(seizure_heatmap)

\* The two functions with a try block do return on every such record.
C21_TryBlockReturns ==
    /\ Returned(seizure_analysis)
    /\ Returned(diagnostic_analysis)

\* create_severity_gauge raises on a connectivity_strength that is a string.
C21_GaugeRaises ==
    /\ NonNumeric(neural_data, "connectivity_strength")
    /\ severity_gauge = Raised("TypeError")

\* create_seizure_heatmap raises on an event without a date.
C21_HeatmapRaises ==
    /\ \E i \in DOMAIN data.seizure_history : Lacks(data.seizure_history[i], "date")
    /\ "raised" \in DOMAIN seizure_heatmap

-----------------------------------------------------------------------------
(* Records of the wrong structure, given to analyze_seizure_frequency and
   process_diagnostic_tests *)

\* The kinds of value that hold no list and no single dict.
ScalarStructures ==
    FalsyStructures \cup {"number", "string", "list_of_numbers", "not_a_dict"}

\* One event dict in place of the list of events.
SingleEvents ==
    { SeizureEvent(Date_2023_01_15, "Focal", IntDuration(120), <<"Stress">>),
      SeizureEvent(Date_2023_06_10, "Focal", IntDuration(90),
                   <<"Stress", "Sleep deprivation">>),
      SeizureEvent(Date_2023_06_10, "Generalized", IntDuration(45), <<>>) }

WrongPatientRecords ==
    {[sections |-> AllSections, seizure_history |-> <<>>, structure |-> kind] :
        kind \in ScalarStructures}
    \cup {[sections |-> AllSections, seizure_history |-> <<event>>,
           structure |-> "single_record"] : event \in SingleEvents}

WrongDiagnosticsRecords ==
    {[sections |-> {"diagnostic_tests"}, diagnostic_tests |-> <<>>, structure |-> kind] :
        kind \in ScalarStructures}
    \cup {[sections |-> {"diagnostic_tests"}, diagnostic_tests |-> <<test>>,
           structure |-> "single_record"] : test \in DiagnosticTests}

\* Each of the two records is of the wrong structure or holds a list, empty
\* or not, of well-formed dicts.
InitStructure ==
    /\ ServicesIdle
    /\ data \in WrongPatientRecords
                    \cup {[sections |-> AllSections, seizure_history |-> h] :
                            h \in UNION {[1..n -> SingleEvents] : n \in 0..1}}
    /\ diagnostics_data \in WrongDiagnosticsRecords
                    \cup {[sections |-> {"diagnostic_tests"}, diagnostic_tests |-> t] :
                            t \in UNION {[1..n -> DiagnosticTests] : n \in 0..1}}
    /\ seizure_analysis = NotCalled
    /\ seizure_heatmap = NotCalled
    /\ seizure_frame = NoFrame
    /\ diagnostic_analysis = NotCalled
    /\ diagnostics_view = NotCalled
    /\ GaugeIdle

NextStructure ==
    \/ AnalyzeSeizureFrequency
    \/ ProcessDiagnosticTests

SpecStructure == InitStructure /\ [][NextStructure]_vars

-----------------------------------------------------------------------------
(* Claims about wrong structure *)

IsNoDataResult(r) == DOMAIN r = {"message"}

IsFailureResult(r) == DOMAIN r = {"error"}

IsFullResult(r) == "message" \notin DOMAIN r /\ "error" \notin DOMAIN r

\* The result has exactly one of the three shapes.
OneOfThreeShapes(r) ==
    \/ IsNoDataResult(r)
    \/ IsFailureResult(r)
    \/ IsFullResult(r) /\ ({"total_seizures", "total_tests"} \cap DOMAIN r) # {}

WrongStructure(d) == "structure" \in DOMAIN d

\* C22: every result of analyze_seizure_frequency and of
\* process_diagnostic_tests is a no-data result (only key "message"), a
\* failure result (only key "error") or a full result (neither key), and
\* input of the wrong structure gives neither the no-data result nor a full
\* result.
C22_WrongStructureSignalled ==
    /\ seizure_analysis # NotCalled =>
          /\ OneOfThreeShapes(seizure_analysis)
          /\ WrongStructure(data) => IsFailureResult(seizure_analysis)
    /\ diagnostic_analysis # NotCalled =>
          /\ OneOfThreeShapes(diagnostic_analysis)
          /\ WrongStructure(diagnostics_data) => IsFailureResult(diagnostic_analysis)

\* The part of C22 that holds: the three shapes exclude one another and
\* cover every result.
C22_ThreeShapes ==
    /\ seizure_analysis # NotCalled => OneOfThreeShapes(seizure_analysis)
    /\ diagnostic_analysis # NotCalled => OneOfThreeShapes(diagnostic_analysis)

\* An empty dict in place of the list of events gives the no-data result.
C22_FalsyGivesNoData ==
    /\ StructureOf(data) = "empty_dict"
    /\ seizure_analysis = NoData

\* One event dict in place of the list gives a full result.
C22_SingleEventGivesAnalysis ==
    /\ StructureOf(data) = "single_record"
    /\ "total_seizures" \in DOMAIN seizure_analysis

-----------------------------------------------------------------------------
(* Claims about the effect of a call on its input *)

AllCalled ==
    /\ seizure_analysis # NotCalled
    /\ seizure_heatmap # NotCalled
    /\ severity_gauge # NotCalled
    /\ diagnostic_analysis # NotCalled

-----------------------------------------------------------------------------
(* Claims about the order of the events and the gaps between them *)

\* The days from 2023-01-01 to a date of the histories, counted on the
\* calendar: 2023 is not a leap year, 2024 is.
DaysInto2023(date) ==
    CASE date = Date_2023_01_15 -> 14
      [] date = Date_2023_01_31 -> 30
      [] date = Date_2023_03_02 -> 31 + 28 + 1
      [] date = Date_2023_06_10 -> 31 + 28 + 31 + 30 + 31 + 9
      [] date = Date_2024_01_31 -> 365 + 30
      [] date = Date_2024_02_29 -> 365 + 31 + 28

\* The number of events of the history with the date, type and triggers of a row.
EventsLike(row) ==
    Cardinality({i \in DOMAIN history :
                    /\ history[i].date = row.date
                    /\ history[i].type = row.type
                    /\ history[i].triggers = row.triggers})

\* C24: whatever the order of the input, the events are processed in
\* ascending date order, events of equal date stay separate events, the gap
\* of the first event is null and the gap of every other event is the whole
\* number of days from the event before it: never negative, 0 for equal dates.
C24_AscendingOrderAndGaps ==
    (Called /\ Len(history) > 0) =>
        /\ seizure_frame.built
        /\ LET rows == seizure_frame.rows
           IN  /\ Len(rows) = Len(history)
               /\ \A k \in DOMAIN rows :
                     EventsLike(rows[k]) =
                         Cardinality({j \in DOMAIN rows :
                                         /\ rows[j].date = rows[k].date
                                         /\ rows[j].type = rows[k].type
                                         /\ rows[j].triggers = rows[k].triggers})
               /\ \A k \in 1..(Len(rows) - 1) : IsoLeq(rows[k].date, rows[k + 1].date)
               /\ rows[1].days_since_last.null
               /\ \A k \in 2..Len(rows) :
                     /\ ~rows[k].days_since_last.null
                     /\ rows[k].days_since_last.days >= 0
                     /\ rows[k].days_since_last.days =
                            DaysInto2023(rows[k].date) - DaysInto2023(rows[k - 1].date)
                     /\ rows[k].date = rows[k - 1].date =>
                            rows[k].days_since_last.days = 0

\* Three events given latest first, two of them on the same day: a gap of 0
\* and a gap of 146 days (2023-01-15 to 2023-06-10).
C24_Witness ==
    /\ Called
    /\ Len(history) = 3
    /\ history[1].date = Date_2023_06_10
    /\ history[2].date = Date_2023_06_10
    /\ history[3].date = Date_2023_01_15
    /\ seizure_frame.built
    /\ seizure_frame.rows[1].days_since_last.null
    /\ seizure_frame.rows[2].days_since_last.days = 146
    /\ seizure_frame.rows[3].days_since_last.days = 0

-----------------------------------------------------------------------------
(* Claims about test_types *)

\* The test of the given list that comes first in ascending date order among
\* the tests of a name (of two tests of one date, the one given first).
FirstSeen(name) ==
    CHOOSE i \in DOMAIN given_tests :
        /\ given_tests[i].test = name
        /\ \A j \in DOMAIN given_tests :
              (given_tests[j].test = name /\ j # i) =>
                  \/ IsoLess(given_tests[i].date, given_tests[j].date)
                  \/ given_tests[i].date = given_tests[j].date /\ i < j

\* Test i comes before test j once the tests are sorted by date.
SortsBefore(i, j) ==
    \/ IsoLess(given_tests[i].date, given_tests[j].date)
    \/ given_tests[i].date = given_tests[j].date /\ i < j

C25_NotInputOrder ==
    /\ DiagnosticsCalled
    /\ Len(given_tests) = 2
    /\ given_tests[1].test = "EEG"
    /\ given_tests[2].test = "AED Level"
    /\ IsDiagnosticAnalysis(diagnostic_analysis)
    /\ diagnostic_analysis.test_types = <<"AED Level", "EEG">>


-----------------------------------------------------------------------------
(* HealthDataProcessor (utils/health_data_processor.py) *)

\* Most readings of one metric.
MaxValues == 3

\* The value of a reading as json.load gives it: an integer, a string, None
\* (reading.get('value') of a reading without the key), or an integer beyond
\* the range of a float such as 10**400, which JSON can write and json.load
\* reads as an int.  Strings are sequences of characters; those of the model
\* hold no whitespace, decimal point or exponent, so every number converted
\* is a whole number and the arithmetic below is exact.
IntValue(n) == [int |-> n]
StrValue(s) == [str |-> s]
NoneValue == [none |-> TRUE]
HugeIntValue == [huge |-> TRUE]

ReadingValues ==
    {IntValue(0), IntValue(95), IntValue(100), IntValue(104), IntValue(105),
     IntValue(0 - 100),
     StrValue(<<"1", "2", "0", "/", "8", "0">>),
     StrValue(<<"1", "2", "6", "/", "x">>),
     StrValue(<<"1", "0", "0">>),
     StrValue(<<"a", "b", "c">>),
     StrValue(<<"/", "8", "0">>),
     NoneValue, HugeIntValue}

ValueLists(max) == UNION {[1..n -> ReadingValues] : n \in 0..max}

\* One pass of the conversion loop: the number, or the exception float()
\* raises.  A string with a "/" gives its part before the first "/".
Converted(number) == [number |-> number]
ToFloat(val) ==
    IF "str" \in DOMAIN val
    THEN LET part == IF \E i \in DOMAIN val.str : val.str[i] = "/"
                     THEN split_on(val.str, "/")[1] ELSE val.str
             parsed == float(part)
         IN  IF parsed.ok THEN Converted(parsed.mantissa) ELSE Raised("ValueError")
    ELSE IF "int" \in DOMAIN val THEN Converted(val.int)
    ELSE IF "none" \in DOMAIN val THEN Raised("TypeError")
    ELSE Raised("OverflowError")

Fails(val) == "raised" \in DOMAIN ToFloat(val)

\* The exception that ends the loop: that of the first value that fails.
FirstFailure(values) ==
    LET i == CHOOSE k \in DOMAIN values :
                 Fails(values[k]) /\ \A j \in 1..(k - 1) : ~Fails(values[j])
    IN  ToFloat(values[i]).raised

numeric_values(values) == [i \in DOMAIN values |-> ToFloat(values[i]).number]

\* What a call gives back: the value returned or the exception raised.
Value(v) == [value |-> v]

CaughtByTrend == {"ValueError", "TypeError", "IndexError"}

\* abs(diff) < 0.05 * second_last: for whole numbers 0.05 * second_last is
\* within one rounding of second_last / 20 and the comparison with the whole
\* number abs(diff) comes out as 20 * abs(diff) < second_last.
WithinFivePercent(diff, second_last) == 20 * Abs(diff) < second_last

_calculate_trend(values) ==
    IF \E i \in DOMAIN values : Fails(values[i])
    THEN IF FirstFailure(values) \in CaughtByTrend
         THEN Value("stable") ELSE Raised(FirstFailure(values))
    ELSE IF Len(values) < 2 THEN Value("stable")
    ELSE LET numbers == numeric_values(values)
             last == numbers[Len(numbers)]
             second_last == numbers[Len(numbers) - 1]
             diff == last - second_last
         IN  IF WithinFivePercent(diff, second_last) THEN Value("stable")
             ELSE IF diff > 0 THEN Value("up") ELSE Value("down")

CaughtByAverage == {"ValueError", "TypeError"}

\* The mean as the fraction sum / count; 0 is 0 / 1.
Mean(sum, count) == [sum |-> sum, count |-> count]
Zero == Mean(0, 1)

_calculate_average(values) ==
    IF \E i \in DOMAIN values : Fails(values[i])
    THEN IF FirstFailure(values) \in CaughtByAverage
         THEN Value(Zero) ELSE Raised(FirstFailure(values))
    ELSE IF values = <<>> THEN Value(Zero)
    ELSE Value(Mean(SumSeq(numeric_values(values)), Len(values)))

InitHealth ==
    /\ health_values \in ValueLists(MaxValues)
    /\ health_trend = NotCalled
    /\ health_average = NotCalled
    /\ SeizureIdle
    /\ GaugeIdle
    /\ DiagnosticsIdle
    /\ PoolIdle
    /\ AppIdle

CalculateTrend ==
    /\ health_trend' = _calculate_trend(health_values)
    /\ UNCHANGED <<health_values, health_average, pool_vars, app_vars,
                   seizure_vars, gauge_vars, diagnostics_vars>>

CalculateAverage ==
    /\ health_average' = _calculate_average(health_values)
    /\ UNCHANGED <<health_values, health_trend, pool_vars, app_vars,
                   seizure_vars, gauge_vars, diagnostics_vars>>

NextHealth == CalculateTrend \/ CalculateAverage

SpecHealth == InitHealth /\ [][NextHealth]_vars


-----------------------------------------------------------------------------
(* Claims on the trend and the average of a metric *)

TrendCalled == health_trend # NotCalled
AverageCalled == health_average # NotCalled

\* A value that cannot be converted to a number, read off the value itself:
\* None, an integer too large for a float, and a string whose part before
\* the first "/" (or the whole string when it has none) is not a plain number.
IsPlainNumber(s) ==
    LET body == IF s # <<>> /\ Head(s) \in {"+", "-"} THEN Tail(s) ELSE s
    IN  body # <<>> /\ \A i \in DOMAIN body : body[i] \in Range(Digits)
Systolic(s) == SubSeq(s, 1, Find(s, "/") - 1)
Unconvertible(val) ==
    \/ "none" \in DOMAIN val
    \/ "huge" \in DOMAIN val
    \/ "str" \in DOMAIN val /\ ~IsPlainNumber(Systolic(val.str))

\* The number a convertible value stands for.
NumberOf(val) ==
    IF "int" \in DOMAIN val THEN val.int
    ELSE LET s == Systolic(val.str)
         IN  IF Head(s) = "-" THEN 0 - DigitsValue(Tail(s))
             ELSE IF Head(s) = "+" THEN DigitsValue(Tail(s))
             ELSE DigitsValue(s)

LastValue == NumberOf(health_values[Len(health_values)])
SecondLastValue == NumberOf(health_values[Len(health_values) - 1])

\* The three cases in which the claim has "stable".
StableCase ==
    \/ Len(health_values) < 2
    \/ \E i \in DOMAIN health_values : Unconvertible(health_values[i])
    \/ 20 * Abs(LastValue - SecondLastValue) < SecondLastValue

TrendAsClaimed ==
    /\ "value" \in DOMAIN health_trend
    /\ health_trend.value \in {"stable", "up", "down"}
    /\ StableCase <=> health_trend.value = "stable"
    /\ ~StableCase /\ LastValue > SecondLastValue => health_trend.value = "up"
    /\ ~StableCase /\ LastValue < SecondLastValue => health_trend.value = "down"

\* C26: _calculate_trend returns exactly one of "stable", "up", "down" and
\* never raises; it is "stable" when there are fewer than two values, when
\* any value cannot be converted to a number, or when the change from the
\* second-to-last to the last value is less than 5% of the second-to-last;
\* otherwise "up" for an increase and "down" for a decrease, by the systolic
\* part of an "a/b" value.
C26_TrendNeverRaises == TrendCalled => TrendAsClaimed

HasHugeInt == \E i \in DOMAIN health_values : "huge" \in DOMAIN health_values[i]

\* The first value that cannot be converted is an integer too large for a
\* float: the one conversion failure that the except clauses do not name.
OverflowFirst ==
    \E i \in DOMAIN health_values :
        /\ "huge" \in DOMAIN health_values[i]
        /\ \A j \in 1..(i - 1) : ~Unconvertible(health_values[j])

\* C26, what does hold: the call raises OverflowError exactly when the first
\* unconvertible value is an over-large integer, and in every other case the
\* result is as the claim has it.
C26_TrendApartFromOverflow ==
    TrendCalled =>
        IF OverflowFirst THEN health_trend = Raised("OverflowError")
        ELSE TrendAsClaimed

\* A list of two values whose second is over-large has been given and the
\* call has raised.
C26_OverflowRaised ==
    /\ Len(health_values) = 2
    /\ "int" \in DOMAIN health_values[1]
    /\ health_trend = Raised("OverflowError")

\* Each of the three results has been returned for two-value lists, by the
\* systolic part in one case: "120/80" then "126/x" is a rise of exactly 5%.
C26_UpBySystolic ==
    /\ health_values = <<StrValue(<<"1", "2", "0", "/", "8", "0">>),
                         StrValue(<<"1", "2", "6", "/", "x">>)>>
    /\ health_trend = Value("up")
C26_StableWithinFivePercent ==
    /\ health_values = <<IntValue(100), IntValue(104)>>
    /\ health_trend = Value("stable")
C26_DownReached ==
    /\ health_values = <<IntValue(100), IntValue(95)>>
    /\ health_trend = Value("down")

\* No change from a second-to-last value that is zero or negative is "down".
C26_NoChangeIsDown ==
    /\ Len(health_values) = 2
    /\ health_values[1] = health_values[2]
    /\ "int" \in DOMAIN health_values[1]
    /\ health_trend = Value("down")

\* sum(values) / len(values) = m, for whole numbers.
IsMeanOf(m, numbers) == m.sum * Len(numbers) = SumSeq(numbers) * m.count

AverageAsClaimed ==
    /\ "value" \in DOMAIN health_average
    /\ IF \E i \in DOMAIN health_values : Unconvertible(health_values[i])
       THEN health_average.value.sum = 0
       ELSE IF health_values = <<>> THEN health_average.value.sum = 0
       ELSE IsMeanOf(health_average.value,
                     [i \in DOMAIN health_values |-> NumberOf(health_values[i])])

\* C27: _calculate_average never raises; it returns the arithmetic mean of
\* the values (the systolic part of an "a/b" value), 0 for an empty list, and
\* 0 for the whole list as soon as one value cannot be converted to a number.
C27_AverageNeverRaises == AverageCalled => AverageAsClaimed

\* C27, what does hold: OverflowError when the first unconvertible value is
\* an over-large integer, the claimed result in every other case.
C27_AverageApartFromOverflow ==
    AverageCalled =>
        IF OverflowFirst THEN health_average = Raised("OverflowError")
        ELSE AverageAsClaimed

C27_OverflowRaised ==
    /\ health_values = <<HugeIntValue>>
    /\ health_average = Raised("OverflowError")

\* An unparsable value after two good ones makes the whole average 0.
C27_ZeroForWholeList ==
    /\ health_values = <<IntValue(100), IntValue(104), StrValue(<<"a", "b", "c">>)>>
    /\ health_average = Value(Zero)

\* The mean of 120 (from "120/80") and 105 is 225 / 2.
C27_MeanBySystolic ==
    /\ health_values = <<StrValue(<<"1", "2", "0", "/", "8", "0">>), IntValue(105)>>
    /\ health_average = Value(Mean(225, 2))


-----------------------------------------------------------------------------
(* The connection pool (utils/db_pool.py) and the routes that use it (app.py) *)

\* Requests the server handles in a behaviour of the model.
MaxRequests == 3

\* The message of the exception raised at db_pool.py 60.
NotInitialized == "Database connection pool is not initialized"

Routes == {"/api/patient", "/api/medications"}

\* The module-level name of app.py a route falls back on and updates.
CacheField(route) == IF route = "/api/patient" THEN "patient_data" ELSE "medications"

\* What a SELECT of a route may find: the rows change between requests.
DatabaseRecords == {"record_1", "record_2"}
NoRow == "no_row"

\* A with-block that ran to its end without an exception.
Completed == [completed |-> TRUE]

\* The response of a route: the body and whether it was built from the rows
\* just read or from the module-level cache.
Jsonify(source, body) == [source |-> source, body |-> body]

\* A use of one of the two context managers: the caller is a route of app.py
\* or code outside any request (the start-up check at app.py 171-177 is
\* one); later tells that the use begins after a request has been torn down.
Use(manager, commit, caller) ==
    [manager |-> manager, commit |-> commit, caller |-> caller,
     later |-> handled > 0]

\* What is known of a with-statement once it has ended: the use, the calls
\* made on the pool, the connection and the cursor in their order ("raise"
\* stands for the exception of the block), what the with-statement gave its
\* caller, and the response of the route, if a route it was.
Finished(u, calls, outcome, response) ==
    [use |-> u, calls |-> calls, outcome |-> outcome, response |-> response]

\* The calls up to the yield.
entry_calls(u) ==
    IF u.manager = "get_db_cursor" THEN <<"getconn", "cursor">> ELSE <<"getconn">>

\* A plausible slip: putconn after the yield instead of in the finally
\* clause, so that it runs only when the block did not raise.
putconn_after_yield(pool, raised) == pool = ThreadedConnectionPool /\ ~raised

\* The finally clause of get_db_connection, db_pool.py 65-67: the
\* connection goes back when connection_pool is not None at that moment.
putconn_in_finally(pool, raised) == pool = ThreadedConnectionPool

\* A plausible slip: the commit in the finally clause of get_db_cursor.
cursor_exit_commit_in_finally(commit, block_raises, commit_raises) ==
    (IF block_raises THEN <<"rollback">> ELSE <<>>)
        \o (IF commit THEN <<"commit">> ELSE <<>>) \o <<"close">>

\* The calls get_db_cursor makes on the connection and the cursor once the
\* block has ended, db_pool.py 80-89: commit after the yield when asked,
\* rollback in the except clause (reached by an exception of the block or of
\* the commit), cursor.close() in the finally clause.
cursor_exit(commit, block_raises, commit_raises) ==
    (IF block_raises THEN <<"rollback">>
     ELSE IF commit
          THEN IF commit_raises THEN <<"commit", "rollback">> ELSE <<"commit">>
          ELSE <<>>)
        \o <<"close">>

\* A plausible slip: close_pool without the global statement, which leaves
\* the module-level name as it was.
close_pool_local(pool) == pool

\* close_pool, db_pool.py 91-101: closeall() and then, in the finally
\* clause, connection_pool = None.
close_pool(pool) == NoPool

InitPool ==
    /\ connection_pool \in {ThreadedConnectionPool, NoPool}
    /\ used = {}
    /\ position = [t \in Threads |-> "idle"]
    /\ use = [t \in Threads |-> NoUse]
    /\ finished = NoneFinished
    /\ AppIdle
    /\ HealthIdle
    /\ SeizureIdle
    /\ GaugeIdle
    /\ DiagnosticsIdle

other_vars == <<health_vars, seizure_vars, gauge_vars, diagnostics_vars>>

\* Where a thread goes when its with-statement has ended: a route returns
\* its response and the app context is torn down.
AfterWith(u) == IF u.caller \in Routes THEN "teardown" ELSE "idle"

\* The with statement up to the first statement of its block: get_db_connection
\* takes a connection (getconn may raise when it has to open a new one) or
\* raises for want of a pool; get_db_cursor then opens the cursor.  A route
\* catches the exception and answers from the cache.
EnterBlock(t, u, getconn_raises) ==
    /\ position[t] = "idle"
    /\ IF connection_pool = ThreadedConnectionPool /\ ~getconn_raises
       THEN /\ used' = used \cup {t}
            /\ use' = [use EXCEPT ![t] = u]
            /\ position' = [position EXCEPT ![t] = "in_block"]
            /\ UNCHANGED finished
       ELSE /\ finished' = Finished(u, <<>>,
                   IF connection_pool = ThreadedConnectionPool
                   THEN Raised("OperationalError") ELSE Raised(NotInitialized),
                   IF u.caller \in Routes
                   THEN Jsonify("cache", cache[CacheField(u.caller)])
                   ELSE NotCalled)
            /\ position' = [position EXCEPT ![t] = AfterWith(u)]
            /\ UNCHANGED <<used, use>>
    /\ UNCHANGED <<connection_pool, cache, handled, other_vars>>

\* with get_db_connection() as connection: ... outside any request.
WithGetDbConnection(t) ==
    \E getconn_raises \in BOOLEAN :
        EnterBlock(t, Use("get_db_connection", FALSE, "direct"), getconn_raises)

\* with get_db_cursor(commit) as cursor: ... outside any request.
WithGetDbCursor(t) ==
    \E commit \in BOOLEAN, getconn_raises \in BOOLEAN :
        EnterBlock(t, Use("get_db_cursor", commit, "direct"), getconn_raises)

\* A request for one of the two routes arrives and its handler reaches
\* with get_db_cursor() as cursor.
Request(t) ==
    /\ handled < MaxRequests
    /\ \E route \in Routes, getconn_raises \in BOOLEAN :
           EnterBlock(t, Use("get_db_cursor", FALSE, route), getconn_raises)

\* A request for a route that does not use the database (/api/features is
\* one) is handled; its app context is torn down like any other.
RequestWithoutDatabase(t) ==
    /\ handled < MaxRequests
    /\ position[t] = "idle"
    /\ position' = [position EXCEPT ![t] = "teardown"]
    /\ UNCHANGED <<connection_pool, used, use, finished, cache, handled, other_vars>>

\* The block ends, by its last statement or by an exception, and the two
\* context managers run their exit code.  The calls made in the exit code
\* (rollback, cursor.close, putconn) are taken not to raise; the commit,
\* which the try statement covers, may.  The block of a route that found
\* rows has assigned the cache and returns the record read; a route whose
\* block raised or found no row returns the cache.
BlockEnds(t) ==
    /\ position[t] = "in_block"
    /\ \E block_raises \in BOOLEAN, commit_raises \in BOOLEAN,
          rows \in DatabaseRecords \cup {NoRow} :
        LET u == use[t]
            cursor_calls ==
                IF u.manager = "get_db_cursor"
                THEN cursor_exit(u.commit, block_raises, commit_raises) ELSE <<>>
            commit_raised ==
                u.manager = "get_db_cursor" /\ ~block_raises /\ u.commit /\ commit_raises
            raised == block_raises \/ commit_raised
            returned == putconn_in_finally(connection_pool, raised)
            read == u.caller \in Routes /\ ~block_raises /\ rows # NoRow
        IN  /\ finished' = Finished(u,
                   entry_calls(u)
                     \o (IF block_raises THEN <<"raise">> ELSE <<>>)
                     \o cursor_calls
                     \o (IF returned THEN <<"putconn">> ELSE <<>>),
                   IF block_raises THEN Raised("BlockError")
                   ELSE IF commit_raised THEN Raised("CommitError")
                   ELSE Completed,
                   IF read THEN Jsonify("database", rows)
                   ELSE IF u.caller \in Routes
                        THEN Jsonify("cache", cache[CacheField(u.caller)])
                        ELSE NotCalled)
            /\ used' = IF returned THEN used \ {t} ELSE used
            /\ cache' = IF read THEN [cache EXCEPT ![CacheField(u.caller)] = rows]
                        ELSE cache
            /\ position' = [position EXCEPT ![t] = AfterWith(u)]
            /\ use' = [use EXCEPT ![t] = NoUse]
    /\ UNCHANGED <<connection_pool, handled, other_vars>>

\* The app context of a request is torn down: shutdown_session calls
\* close_pool.
ShutdownSession(t) ==
    /\ position[t] = "teardown"
    /\ connection_pool' = close_pool(connection_pool)
    /\ handled' = handled + 1
    /\ position' = [position EXCEPT ![t] = "idle"]
    /\ UNCHANGED <<used, use, finished, cache, other_vars>>

NextPool ==
    \E t \in Threads :
        \/ WithGetDbConnection(t)
        \/ WithGetDbCursor(t)
        \/ Request(t)
        \/ RequestWithoutDatabase(t)
        \/ BlockEnds(t)
        \/ ShutdownSession(t)

SpecPool == InitPool /\ [][NextPool]_vars


-----------------------------------------------------------------------------
(* Claims on the connection pool *)

\* How often a call occurs among the calls of the with-statement that ended
\* last, and where it first occurs (0 when it does not).
NumberOfCalls(call) ==
    Cardinality({i \in DOMAIN finished.calls : finished.calls[i] = call})
Made(call) == NumberOfCalls(call) > 0
IndexOfCall(call) ==
    IF Made(call) THEN Find(finished.calls, call) ELSE 0

SomeFinished == finished # NoneFinished
BlockEntered == Made("getconn")
BlockRaised == Made("raise")
NoBlockOpen == \A t \in Threads : position[t] # "in_block"

\* The pool was None when the with-statement that ended last began: it has
\* been closed by then, or it was never created and is None to this day.
PoolWasNone ==
    SomeFinished /\ (finished.use.later \/ (connection_pool = NoPool /\ handled = 0))

\* Raised without taking or returning a connection.
RaisedForWantOfPool ==
    /\ finished.outcome = Raised(NotInitialized)
    /\ ~Made("getconn")
    /\ ~Made("putconn")

C28_NotReturnedAfterClose ==
    /\ BlockEntered
    /\ ~Made("putconn")
    /\ NoBlockOpen
    /\ used # {}

\* The with-statement that ended last was one of get_db_cursor and reached
\* its block.
CursorBlockEntered == finished.use.manager = "get_db_cursor" /\ Made("cursor")

\* C29: get_db_cursor commits if and only if commit=True and the block
\* completes without an exception; when the block raises the transaction is
\* rolled back, never committed, and the exception is re-raised; in every
\* case the cursor is closed before the connection is returned to the pool.
C29_CommitRollbackClose ==
    CursorBlockEntered =>
        /\ Made("commit") <=> (finished.use.commit /\ ~BlockRaised)
        /\ NumberOfCalls("commit") <= 1
        /\ BlockRaised =>
               /\ Made("rollback")
               /\ ~Made("commit")
               /\ finished.outcome = Raised("BlockError")
        /\ NumberOfCalls("close") = 1
        /\ IndexOfCall("cursor") < IndexOfCall("close")
        /\ Made("putconn") => IndexOfCall("close") < IndexOfCall("putconn")
        /\ Made("commit") => IndexOfCall("commit") < IndexOfCall("close")
        /\ Made("rollback") => IndexOfCall("rollback") < IndexOfCall("close")

\* A block under get_db_cursor(commit=True) has completed: commit, then the
\* cursor closed, then the connection returned.
C29_Witness ==
    /\ finished.use.manager = "get_db_cursor"
    /\ finished.use.commit
    /\ finished.calls = <<"getconn", "cursor", "commit", "close", "putconn">>
    /\ finished.outcome = Completed

\* A block under get_db_cursor(commit=True) has raised: rollback and no
\* commit.
C29_RolledBack ==
    /\ finished.use.manager = "get_db_cursor"
    /\ finished.use.commit
    /\ finished.calls = <<"getconn", "cursor", "raise", "rollback", "close", "putconn">>
    /\ finished.outcome = Raised("BlockError")

\* The commit itself has raised: rollback follows and the exception goes to
\* the caller.
C29_CommitRaised ==
    /\ finished.calls = <<"getconn", "cursor", "commit", "rollback", "close", "putconn">>
    /\ finished.outcome = Raised("CommitError")

LaterRequest == SomeFinished /\ finished.use.later /\ finished.use.caller \in Routes

C30_StartupDataServed ==
    /\ LaterRequest
    /\ finished.response = Jsonify("cache", "startup")

====
